---- MODULE Spec2Model ----
(***************************************************************************)
(* Model of backup_tool.py: configuration resolution (main, apply_args,    *)
(* load_config_file), the archive pipeline (make_archive), the upload      *)
(* dispatcher (do_upload_one, headless_make_archive) and the notification  *)
(* dispatcher (run_plugins).                                               *)
(*                                                                         *)
(* Strings of the program are strings here.  argparse's None and the empty *)
(* string are both falsy for every test the code makes on them, and both   *)
(* are written "".  The 0/1 flags of the program are the integers 0 and 1. *)
(***************************************************************************)
EXTENDS Integers, Sequences, FiniteSets, TLC

\* ------------------------------------------------------------------ bounds
\* Largest retry count the run scenarios configure.
MaxRetry == 2
\* Largest number of chunks a split produces in the run scenarios.
MaxChunks == 2
\* Number of lines of the config files enumerated for configuration resolution.
MaxCfgLines == 2
\* Bytes of the files, and bytes per chunk, enumerated for do_python_split alone.
MaxFileBytes == 5
MaxChunkBytes == 3

\* ------------------------------------------------------- built-in defaults
\* The module-level defaults (UPLOAD_RETRY is the int 3 there; the code reads
\* it through int(), so the decimal string stands for it).
Defaults ==
  [ ARCHIVE_FORMAT   |-> "zip",
    ZIP_AES          |-> 0,
    USE_GPG          |-> 0,
    SPLIT_SIZE       |-> "",
    ZIP_ENCRYPT      |-> 0,
    ZIP_PASSWORD     |-> "",
    KEEP_AFTER_SPLIT |-> 1,
    RM_AFTER_SPLIT   |-> 0,
    EXCLUDES         |-> <<>>,
    NO_UI            |-> 0,
    SOURCES          |-> <<>>,
    UPLOAD_TARGET    |-> "",
    UPLOAD_TOOL      |-> "auto",
    AFTER_UPLOAD_RM  |-> 0,
    UPLOAD_RETRY     |-> "3",
    DRY_RUN          |-> 0,
    NOTIFY_TARGETS   |-> <<>>,
    MAKE_CHECKSUM    |-> 0,
    MAKE_SUMMARY     |-> 0 ]

\* Keys of the config file that are stored as given / parsed as booleans.
CFG_BOOL_KEYS ==
  { "ZIP_AES", "USE_GPG", "ZIP_ENCRYPT", "KEEP_AFTER_SPLIT", "RM_AFTER_SPLIT",
    "NO_UI", "AFTER_UPLOAD_RM", "DRY_RUN", "MAKE_CHECKSUM", "MAKE_SUMMARY" }

CFG_STR_KEYS ==
  { "ARCHIVE_FORMAT", "SPLIT_SIZE", "ZIP_PASSWORD", "UPLOAD_TARGET",
    "UPLOAD_TOOL", "UPLOAD_RETRY" }

\* What the command line leaves unset.
NoArgs ==
  [ CONFIG_FILE      |-> "",
    ARCHIVE_FORMAT   |-> "",
    ZIP_AES          |-> FALSE,
    USE_GPG          |-> FALSE,
    SPLIT_SIZE       |-> "",
    ZIP_ENCRYPT      |-> FALSE,
    ZIP_PASSWORD     |-> "",
    KEEP_AFTER_SPLIT |-> FALSE,
    RM_AFTER_SPLIT   |-> FALSE,
    EXCLUDES         |-> <<>>,
    NO_UI            |-> FALSE,
    SOURCES          |-> <<>>,
    UPLOAD_TARGET    |-> "",
    UPLOAD_TOOL      |-> "",
    AFTER_UPLOAD_RM  |-> FALSE,
    UPLOAD_RETRY     |-> "",
    DRY_RUN          |-> FALSE,
    NOTIFY_TARGETS   |-> <<>>,
    MAKE_CHECKSUM    |-> "default",
    MAKE_SUMMARY     |-> "default" ]

\* ------------------------------------------------------------- conversions
\* str(v).strip().lower() on the boolean tokens the scenarios use.
StripLower(s) ==
  CASE s = "TRUE"  -> "true"
    [] s = " yes " -> "yes"
    [] s = "Off"   -> "off"
    [] OTHER       -> s

\* int(s) where it succeeds; every other string raises ValueError.
IntLiteral == ("0" :> 0) @@ ("1" :> 1) @@ ("2" :> 2) @@ ("3" :> 3) @@ ("4" :> 4)
              @@ ("00" :> 0) @@ ("7" :> 7)

parse_bool(v) ==
  LET s == StripLower(v) IN
  IF s \in {"1", "true", "yes", "on", "y", "t"} THEN 1
  ELSE IF s \in {"0", "false", "no", "off", "n", "f", ""} THEN 0
  ELSE IF s \in DOMAIN IntLiteral THEN (IF IntLiteral[s] # 0 THEN 1 ELSE 0)
  ELSE 0

\* p.strip() of one comma-separated part.
Strip(p) ==
  CASE p = " srcB" -> "srcB"
    [] p = " "     -> ""
    [] OTHER       -> p

\* [p.strip() for p in v.split(',') if p.strip()]; a value is kept as the
\* sequence of its comma-separated parts.
RECURSIVE SplitStrip(_)
SplitStrip(parts) ==
  IF parts = <<>> THEN <<>>
  ELSE LET p == Strip(Head(parts)) IN
       (IF p # "" THEN <<p>> ELSE <<>>) \o SplitStrip(Tail(parts))

\* add_excludes_from_arg: nothing for an empty value, else the stripped parts.
add_excludes_from_arg(excludes, raw) ==
  IF raw = <<>> THEN excludes ELSE excludes \o SplitStrip(raw)

\* ------------------------------------------------------------- config file
\* One KEY=VALUE line of the config file: <<key, value>>.
load_line(g, e) ==
  LET k == e[1]
      v == e[2] IN
  IF k \in CFG_STR_KEYS THEN [g EXCEPT ![k] = v]
  ELSE IF k \in CFG_BOOL_KEYS THEN [g EXCEPT ![k] = parse_bool(v)]
  ELSE IF k = "EXCLUDES" THEN [g EXCEPT !.EXCLUDES = add_excludes_from_arg(@, v)]
  ELSE IF k = "SOURCES" THEN [g EXCEPT !.SOURCES = @ \o SplitStrip(v)]
  ELSE IF k = "NOTIFY" THEN [g EXCEPT !.NOTIFY_TARGETS = @ \o SplitStrip(v)]
  ELSE g

RECURSIVE load_lines(_, _)
load_lines(g, lines) ==
  IF lines = <<>> THEN g
  ELSE load_lines(load_line(g, Head(lines)), Tail(lines))

\* A config file on disk: kind "missing" (not a file), "unreadable" (a file
\* that open() cannot read) or "file" (its lines).
IsFile(f) == f.kind # "missing"

\* load_config_file when it returns: a warning and no change when the path is
\* empty or no file, else every line applied in order.
load_config_file(g, path, f) ==
  IF path = "" \/ ~IsFile(f) THEN g ELSE load_lines(g, f.lines)

\* load_config_file raises (open() fails) instead of returning.
load_config_raises(path, f) == path # "" /\ IsFile(f) /\ f.kind = "unreadable"

\* ---------------------------------------------------------------- apply_args
RECURSIVE AppendNonEmpty(_, _)
AppendNonEmpty(list, items) ==
  IF items = <<>> THEN list
  ELSE AppendNonEmpty(IF Head(items) # "" THEN Append(list, Head(items)) ELSE list,
                      Tail(items))

RECURSIVE ExtendNotify(_, _)
ExtendNotify(list, raws) ==
  IF raws = <<>> THEN list
  ELSE ExtendNotify(IF Head(raws) # <<>> THEN list \o SplitStrip(Head(raws)) ELSE list,
                    Tail(raws))

RECURSIVE ExtendExcludes(_, _)
ExtendExcludes(list, raws) ==
  IF raws = <<>> THEN list
  ELSE ExtendExcludes(add_excludes_from_arg(list, Head(raws)), Tail(raws))

\* "if args.X: X = args.X" for a string option.
SetIfGiven(g, k, v) == IF v # "" THEN [g EXCEPT ![k] = v] ELSE g
\* "if args.X: X = 1" for a store_true flag.
SetIfFlag(g, k, b) == IF b THEN [g EXCEPT ![k] = 1] ELSE g
\* "if args.X is False: X = 0" for the --summary/--no-summary pair.
ClearIfFalse(g, k, v) == IF v = "False" THEN [g EXCEPT ![k] = 0] ELSE g

\* "if KEEP_AFTER_SPLIT and RM_AFTER_SPLIT: RM_AFTER_SPLIT = 0".
KeepWins(g) ==
  IF g.KEEP_AFTER_SPLIT # 0 /\ g.RM_AFTER_SPLIT # 0
  THEN [g EXCEPT !.RM_AFTER_SPLIT = 0] ELSE g

\* apply_args after its own load_config_file call has returned g0.
apply_args_body(g0, a) ==
  LET g1  == SetIfGiven(g0, "ARCHIVE_FORMAT",
                        IF a.ARCHIVE_FORMAT = "tar.gz" THEN "tgz" ELSE a.ARCHIVE_FORMAT)
      g2  == SetIfFlag(g1, "ZIP_AES", a.ZIP_AES)
      g3  == SetIfFlag(g2, "USE_GPG", a.USE_GPG)
      g4  == SetIfGiven(g3, "SPLIT_SIZE", a.SPLIT_SIZE)
      g5  == SetIfFlag(g4, "ZIP_ENCRYPT", a.ZIP_ENCRYPT)
      g6  == SetIfGiven(g5, "ZIP_PASSWORD", a.ZIP_PASSWORD)
      g7  == SetIfFlag(g6, "KEEP_AFTER_SPLIT", a.KEEP_AFTER_SPLIT)
      g8  == SetIfFlag(g7, "RM_AFTER_SPLIT", a.RM_AFTER_SPLIT)
      g9  == SetIfFlag(g8, "NO_UI", a.NO_UI)
      g10 == [g9 EXCEPT !.SOURCES = AppendNonEmpty(@, a.SOURCES)]
      g11 == SetIfGiven(g10, "UPLOAD_TARGET", a.UPLOAD_TARGET)
      g12 == SetIfGiven(g11, "UPLOAD_TOOL", a.UPLOAD_TOOL)
      g13 == SetIfFlag(g12, "AFTER_UPLOAD_RM", a.AFTER_UPLOAD_RM)
      g14 == SetIfGiven(g13, "UPLOAD_RETRY", a.UPLOAD_RETRY)
      g15 == SetIfFlag(g14, "DRY_RUN", a.DRY_RUN)
      g16 == [g15 EXCEPT !.NOTIFY_TARGETS = ExtendNotify(@, a.NOTIFY_TARGETS)]
      g17 == [g16 EXCEPT !.EXCLUDES = ExtendExcludes(@, a.EXCLUDES)]
      g18 == ClearIfFalse(g17, "MAKE_CHECKSUM", a.MAKE_CHECKSUM)
      g19 == ClearIfFalse(g18, "MAKE_SUMMARY", a.MAKE_SUMMARY)
  IN KeepWins(g19)

\* apply_args: the config file is loaded (again), then the options applied.
apply_args(g, a, f) == apply_args_body(load_config_file(g, a.CONFIG_FILE, f), a)

\* main, "if NO_UI: KEEP_AFTER_SPLIT = KEEP_AFTER_SPLIT or 1".
HeadlessKeep(g) ==
  IF g.NO_UI # 0
  THEN [g EXCEPT !.KEEP_AFTER_SPLIT = IF @ # 0 THEN @ ELSE 1] ELSE g

\* ------------------------------------------------------------------- state
VARIABLES
  args,            \* the parsed command line (argparse.Namespace)
  cfgfile,         \* the config file the --config path names
  installed,       \* the external tools shutil.which finds
  pc,              \* position of the process
  G,               \* the module globals holding the effective configuration
  SELECTED_PATHS,  \* the selection
  disk,            \* paths that exist on the file system
  archive_size,    \* bytes of the primary artifact once it is written
  archiver_rc,     \* exit status of the archiver process of the run (0 before it ran)
  tmpfile,         \* make_archive: the archiver's output path
  encrypted_file,  \* make_archive: the gpg output path
  primary_out,     \* make_archive: first element of its result
  files_to_upload, \* make_archive: second element of its result
  SUMMARY_JSON,    \* path of the summary file of the run
  pw_source,       \* where the archive password came from
  FINAL_STATUS,    \* aggregate status of the run
  idx,             \* headless_make_archive: position in files_to_upload
  tool,            \* do_upload_one: the upload tool in use
  tries,           \* do_upload_one: retry count
  attempt,         \* do_upload_one: loop counter
  delay,           \* do_upload_one: next backoff
  nidx,            \* run_plugins: position in NOTIFY_TARGETS
  stages,          \* history: stages entered in this run, in order
  upl,             \* history: one record per file the dispatcher visited
  dispatches,      \* history: the run_plugins calls of this run
  handled,         \* history: notify targets handled by the dispatch
  effects,         \* history: file-system changes and processes of this run
  warnings,        \* history: recoverable conditions met in this run
  abort,           \* reason the process was aborted, "" if it was not
  split_src,       \* do_python_split alone: the bytes of the file at `path`
  split_chunk,     \* do_python_split alone: chunk_bytes
  split_rest,      \* do_python_split alone: the bytes src has not read yet
  split_parts,     \* do_python_split alone: the files written, [path, data] each
  res_tgt,         \* _resolve_plugin alone: tgt
  res_fs,          \* _resolve_plugin alone: the files that exist, "x" executable, "r" not
  res_i,           \* _resolve_plugin alone: position in candidates
  res_out,         \* _resolve_plugin alone: the pair it returns
  sel_base,        \* selection alone: SELECTED_PATHS at the start or after the last clear
  sel_count,       \* selection alone: toggles of each path since then
  sel_prev,        \* selection alone: SELECTED_PATHS before the last operation
  sel_op,          \* selection alone: the last operation, [kind, path]
  br_dir,          \* browser alone: the entries of target_dir and of its subdirectory
  page,            \* pilih_file_ui: page
  cursor_index,    \* pilih_file_ui: cursor_index
  filter_regex,    \* pilih_file_ui: filter_regex, "" for None
  expanded_dirs,   \* pilih_file_ui: expanded_dirs
  visual_list,     \* pilih_file_ui: the list of the last rendering
  br_key           \* browser alone: the last key; for ENTER its index and the page shown

inputVars == <<args, cfgfile, installed>>
archVars  == <<archive_size, archiver_rc, tmpfile, encrypted_file, primary_out, files_to_upload,
               SUMMARY_JSON, pw_source>>
uplVars   == <<FINAL_STATUS, idx, tool, tries, attempt, delay, upl>>
notVars   == <<nidx, dispatches, handled>>
histVars  == <<stages, effects, warnings>>
splitVars == <<split_src, split_chunk, split_rest, split_parts>>
resolveVars == <<res_tgt, res_fs, res_i, res_out>>
selVars == <<sel_base, sel_count, sel_prev, sel_op>>
browseVars == <<br_dir, page, cursor_index, filter_regex, expanded_dirs, visual_list, br_key>>
aloneVars == <<splitVars, resolveVars, selVars, browseVars>>
vars == <<args, cfgfile, installed, pc, G, SELECTED_PATHS, disk, archive_size,
         archiver_rc,
          tmpfile, encrypted_file, primary_out, files_to_upload, SUMMARY_JSON,
          pw_source, FINAL_STATUS, idx, tool, tries, attempt, delay, nidx, stages,
          upl, dispatches, handled, effects, warnings, abort, split_src, split_chunk,
          split_rest, split_parts, res_tgt, res_fs, res_i, res_out, sel_base,
          sel_count, sel_prev, sel_op, br_dir, page, cursor_index, filter_regex,
          expanded_dirs, visual_list, br_key>>

\* _resolve_plugin: a path is a directory prefix ("" for none), a name and the
\* suffixes after it; the pair returned is the command list and the path.
NoPath == [dir |-> "", name |-> "", sufs |-> <<>>]
NotResolved == [cmd |-> <<>>, resolved |-> ""]

\* _resolve_plugin is not running.
ResolveIdle ==
  res_tgt = NoPath /\ res_fs = [p \in {} |-> "r"] /\ res_i = 0 /\ res_out = NotResolved

\* The selection is not looked at on its own.
NoOp == [kind |-> "", path |-> ""]
SelectIdle ==
  sel_base = <<>> /\ sel_count = [p \in {} |-> 0] /\ sel_prev = <<>> /\ sel_op = NoOp

\* The browser is not looked at on its own.
NoKey == [key |-> "", index |-> 0, hit |-> FALSE, start |-> 0, end |-> 0, total |-> 0]
BrowseIdle ==
  /\ br_dir = [base |-> <<>>, subs |-> <<>>]
  /\ page = 1 /\ cursor_index = 0 /\ filter_regex = "" /\ expanded_dirs = {}
  /\ visual_list = <<>> /\ br_key = NoKey

\* The globals under their names.
DRY_RUN        == G.DRY_RUN # 0
NO_UI          == G.NO_UI # 0
UPLOAD_TARGET  == G.UPLOAD_TARGET
NOTIFY_TARGETS == G.NOTIFY_TARGETS

command_exists(cmd) == cmd \in installed

\* OUT_DIR and BASE of the run (DEST_DIR and OUT_NAME are fixed in the model).
OUT_DIR == "out"
BASE    == "bk"

\* Path(OUT_DIR).mkdir(parents=True, exist_ok=True): a change only when the
\* directory is not there yet.
Mkdir(d, e) == IF d \in disk THEN e ELSE e \cup {"mkdir"}

\* raise SystemExit(message) / an uncaught exception: the process ends with
\* exit status 1.
Fatal(reason) == pc' = "exit1" /\ abort' = reason

\* ------------------------------------------------------------------- main
\* main, "if args.CONFIG_FILE: load_config_file(args.CONFIG_FILE)".
MainLoadConfig ==
  /\ pc = "main"
  /\ IF load_config_raises(args.CONFIG_FILE, cfgfile)
     THEN Fatal("config_unreadable") /\ UNCHANGED <<G, warnings>>
     ELSE /\ G' = load_config_file(G, args.CONFIG_FILE, cfgfile)
          /\ warnings' = IF args.CONFIG_FILE # "" /\ ~IsFile(cfgfile)
                         THEN warnings \cup {"config_not_found"} ELSE warnings
          /\ pc' = "apply"
          /\ UNCHANGED abort
  /\ UNCHANGED <<inputVars, aloneVars, SELECTED_PATHS, disk, archVars, uplVars, notVars,
                 stages, effects>>

\* main, "apply_args(args)".
ApplyArgs ==
  /\ pc = "apply"
  /\ G' = apply_args(G, args, cfgfile)
  /\ pc' = "branch"
  /\ UNCHANGED <<inputVars, aloneVars, SELECTED_PATHS, disk, archVars, uplVars, notVars,
                 histVars, abort>>

\* main, "if NO_UI: ... headless_make_archive() ... else pilih_file_ui()".
MainBranch ==
  /\ pc = "branch"
  /\ G' = HeadlessKeep(G)
  /\ pc' = IF NO_UI THEN "headless" ELSE "ui"
  /\ UNCHANGED <<inputVars, aloneVars, SELECTED_PATHS, disk, archVars, uplVars, notVars,
                 histVars, abort>>

\* --------------------------------------------------------------- selection
\* Entries the file browser shows.
UiPaths == {"srcA"}

RECURSIVE Without(_, _)
Without(s, p) ==
  IF s = <<>> THEN <<>>
  ELSE (IF Head(s) = p THEN <<>> ELSE <<Head(s)>>) \o Without(Tail(s), p)

InSeq(s, p) == \E i \in 1..Len(s) : s[i] = p

\* "x for x in s if x != p" stopping at the first occurrence.
RECURSIVE WithoutFirst(_, _)
WithoutFirst(s, p) ==
  IF s = <<>> THEN <<>>
  ELSE IF Head(s) = p THEN Tail(s) ELSE <<Head(s)>> \o WithoutFirst(Tail(s), p)

\* Mutant of toggle_selected: only the first occurrence is removed.
toggle_selected_first(sel, p) == IF InSeq(sel, p) THEN WithoutFirst(sel, p) ELSE Append(sel, p)

toggle_selected(sel, p) == IF InSeq(sel, p) THEN Without(sel, p) ELSE Append(sel, p)

\* pilih_file_ui, key ENTER on a displayed entry.
UiToggle ==
  /\ pc = "ui"
  /\ \E p \in UiPaths : SELECTED_PATHS' = toggle_selected(SELECTED_PATHS, p)
  /\ UNCHANGED <<inputVars, aloneVars, pc, G, disk, archVars, uplVars, notVars, histVars, abort>>

\* pilih_file_ui, key U.
UiClear ==
  /\ pc = "ui"
  /\ SELECTED_PATHS # <<>>
  /\ SELECTED_PATHS' = <<>>
  /\ UNCHANGED <<inputVars, aloneVars, pc, G, disk, archVars, uplVars, notVars, histVars, abort>>

\* pilih_file_ui, key q: sys.exit(0).
UiQuit ==
  /\ pc = "ui"
  /\ pc' = "exit0"
  /\ UNCHANGED <<inputVars, aloneVars, G, SELECTED_PATHS, disk, archVars, uplVars, notVars,
                 histVars, abort>>

\* ------------------------------------------------- headless_make_archive
RECURSIVE Existing(_, _)
\* The entries of `list` that exist, in order.
Existing(list, d) ==
  IF list = <<>> THEN <<>>
  ELSE (IF Head(list) \in d THEN <<Head(list)>> ELSE <<>>) \o Existing(Tail(list), d)

apply_sources_if_any(sel, sources, d) ==
  IF sel = <<>> /\ sources # <<>> THEN Existing(sources, d) ELSE sel

\* State of a run before its first stage.
FreshRun ==
  /\ archive_size' = 0
  /\ archiver_rc' = 0
  /\ tmpfile' = ""
  /\ encrypted_file' = ""
  /\ primary_out' = ""
  /\ files_to_upload' = <<>>
  /\ pw_source' = "none"
  /\ idx' = 0 /\ tool' = "" /\ tries' = 0 /\ attempt' = 0 /\ delay' = 0
  /\ upl' = <<>>
  /\ nidx' = 0 /\ dispatches' = <<>> /\ handled' = <<>>
  /\ stages' = <<>>

\* headless_make_archive up to the call of make_archive.  With nothing
\* selected the headless process exits with status 1 and the interactive one
\* prints the message and returns to the browser.
headless_make_archive ==
  /\ FreshRun
  /\ LET sel == apply_sources_if_any(SELECTED_PATHS, G.SOURCES, disk) IN
     /\ SELECTED_PATHS' = sel
     /\ warnings' = warnings \cup
          (IF SELECTED_PATHS = <<>> /\ Len(sel) < Len(G.SOURCES)
           THEN {"source_not_found"} ELSE {})
     /\ IF sel = <<>>
        THEN /\ IF NO_UI THEN Fatal("no_selection")
                         ELSE pc' = "ui" /\ abort' = "no_selection"
             /\ effects' = {}
             /\ UNCHANGED disk
        ELSE /\ pc' = "prepare"
             /\ abort' = ""
             /\ effects' = IF NO_UI THEN {} ELSE Mkdir(OUT_DIR, {})
             /\ disk' = IF NO_UI THEN disk ELSE disk \cup {OUT_DIR}
  /\ UNCHANGED <<inputVars, aloneVars, G, FINAL_STATUS, SUMMARY_JSON>>

\* main, headless: headless_make_archive is called once.
HeadlessStart == pc = "headless" /\ headless_make_archive

\* pilih_file_ui, key z: headless_make_archive is called from the browser.
UiArchive == pc = "ui" /\ headless_make_archive

\* ------------------------------------------------------------ make_archive
\* Exit statuses an external command can return.
ExitCodes == {0, 1}

\* Mutant of run_or_echo: the command runs in a dry run too.
run_or_echo_runs(dry, rc) == rc

\* run_or_echo: in a dry run the command is only logged and 0 is returned;
\* otherwise the command runs and its exit status rc is returned.
run_or_echo(dry, rc) == IF dry THEN 0 ELSE rc

\* The side effect of run_or_echo: a process, unless the run is a dry run.
run_or_echo_effects(dry, what) == IF dry THEN {} ELSE {what}

\* make_archive up to "Create archive": output directory, log file and, in a
\* dry run, the plan (with one du process per selected path).
Prepare ==
  /\ pc = "prepare"
  /\ IF SELECTED_PATHS = <<>>
     THEN Fatal("no_selection") /\ UNCHANGED <<disk, histVars>>
     ELSE /\ pc' = "archive"
          /\ stages' = Append(stages, "Prepare")
          /\ disk' = disk \cup {OUT_DIR}
          /\ effects' = Mkdir(OUT_DIR, effects) \cup {"log"}
                        \cup (IF DRY_RUN THEN {"proc:du"} ELSE {})
          /\ UNCHANGED <<warnings, abort>>
  /\ UNCHANGED <<inputVars, aloneVars, G, SELECTED_PATHS, archVars, uplVars, notVars>>

KnownFormats == {"zip", "tgz", "tar.gz", "tar", "7z"}
TarFormats   == {"tgz", "tar.gz", "tar"}

\* The external archiver a format needs.
ArchiverOf(g) ==
  CASE g.ARCHIVE_FORMAT = "zip" -> (IF g.ZIP_AES = 1 THEN "7z" ELSE "zip")
    [] g.ARCHIVE_FORMAT \in TarFormats -> "tar"
    [] g.ARCHIVE_FORMAT = "7z" -> "7z"

\* The path the archiver writes.
ArchivePath(g) ==
  (OUT_DIR \o "/" \o BASE) \o
  (CASE g.ARCHIVE_FORMAT = "zip" -> ".zip"
     [] g.ARCHIVE_FORMAT \in {"tgz", "tar.gz"} -> ".tar.gz"
     [] g.ARCHIVE_FORMAT = "tar" -> ".tar"
     [] g.ARCHIVE_FORMAT = "7z" -> ".7z")

\* Where the password of the archive comes from: the explicit setting, a
\* prompt of the tool (input() for 7z, zip -e for zip), or none.
PasswordSource(g) ==
  IF g.ARCHIVE_FORMAT \in TarFormats THEN "none"
  ELSE IF g.ZIP_PASSWORD # "" THEN "explicit"
  ELSE IF g.ZIP_ENCRYPT = 1 THEN "prompt"
  ELSE "none"

\* The exit status of the shell command of the format.  tgz runs the pipeline
\* "tar ... | compressor > file" under sh, whose status is the status of its
\* last command, the compressor (crc); the other formats run the archiver alone.
ShellStatus(g, rc, crc) ==
  IF g.ARCHIVE_FORMAT \in {"tgz", "tar.gz"} THEN crc ELSE rc

\* Plain zip calls subprocess directly in a real run and run_or_echo in a dry
\* run; every other format goes through run_or_echo.
ArchiverStatus(g, dry, rc, crc) == run_or_echo(dry, ShellStatus(g, rc, crc))

\* The integrity self-test that follows a successful archiver: zip -T after a
\* plain zip, gzip -t after tgz when gzip is installed; none in a dry run.
IntegrityTest(g, dry) ==
  IF dry THEN "none"
  ELSE IF g.ARCHIVE_FORMAT = "zip" /\ g.ZIP_AES # 1 THEN "zip -T"
  ELSE IF g.ARCHIVE_FORMAT \in {"tgz", "tar.gz"} /\ command_exists("gzip") THEN "gzip -t"
  ELSE "none"

\* Sizes, in bytes, of the archives the external tools write.
ArchiveSizes == {0, 1024} \cup {1024 * MaxChunks - 512}

\* make_archive, "Create archive".
Archive ==
  /\ pc = "archive"
  /\ IF G.ARCHIVE_FORMAT \notin KnownFormats
     THEN /\ Fatal("unknown_format")
          /\ stages' = Append(stages, "Archive")
          /\ UNCHANGED <<disk, archVars, effects, warnings>>
     ELSE IF ~command_exists(ArchiverOf(G))
     THEN /\ Fatal("missing_tool")
          /\ stages' = Append(stages, "Archive")
          /\ UNCHANGED <<disk, archVars, effects, warnings>>
     ELSE \E rc \in ExitCodes, crc \in ExitCodes, sz \in ArchiveSizes,
             testok \in BOOLEAN :
          LET status == ArchiverStatus(G, DRY_RUN, rc, crc)
              test   == IntegrityTest(G, DRY_RUN) IN
          /\ stages' = Append(stages, "Archive")
          /\ tmpfile' = ArchivePath(G)
          /\ pw_source' = PasswordSource(G)
          /\ (DRY_RUN => rc = 0 /\ crc = 0)
          /\ (G.ARCHIVE_FORMAT \notin {"tgz", "tar.gz"} => crc = rc)
          /\ archiver_rc' = rc
          /\ IF status # 0
             THEN /\ Fatal("archiver_failed")
                  /\ sz = 0 /\ testok
                  /\ effects' = effects \cup run_or_echo_effects(DRY_RUN, "proc:archiver")
                  /\ UNCHANGED <<disk, archive_size, warnings>>
             ELSE /\ pc' = "encrypt"
                  /\ (DRY_RUN => sz = 0 /\ testok)
                  /\ (test = "none" => testok)
                  /\ archive_size' = sz
                  /\ disk' = IF DRY_RUN THEN disk ELSE disk \cup {ArchivePath(G)}
                  /\ effects' = effects
                       \cup run_or_echo_effects(DRY_RUN, "proc:archiver")
                       \cup (IF DRY_RUN THEN {} ELSE {"write:archive"})
                       \cup (IF test # "none" THEN {"proc:" \o test} ELSE {})
                  /\ warnings' = IF testok THEN warnings
                                 ELSE warnings \cup {"integrity_test_failed"}
                  /\ UNCHANGED abort
          /\ UNCHANGED <<encrypted_file, primary_out, files_to_upload, SUMMARY_JSON>>
  /\ UNCHANGED <<inputVars, aloneVars, G, SELECTED_PATHS, uplVars, notVars>>

\* "if USE_GPG == 1 and ARCHIVE_FORMAT in ('tgz','tar.gz','tar')".
EncryptApplies(g) == g.USE_GPG = 1 /\ g.ARCHIVE_FORMAT \in TarFormats

\* make_archive, "GPG Encrypt for tar/tgz", when it applies.
Encrypt ==
  /\ pc = "encrypt"
  /\ EncryptApplies(G)
  /\ stages' = Append(stages, "Encrypt")
  /\ IF ~command_exists("gpg")
     THEN /\ Fatal("missing_tool")
          /\ UNCHANGED <<disk, archVars, effects>>
     ELSE \E rc \in ExitCodes :
          /\ encrypted_file' = tmpfile \o ".gpg"
          /\ effects' = effects \cup run_or_echo_effects(DRY_RUN, "proc:gpg")
                        \cup (IF DRY_RUN \/ rc # 0 THEN {} ELSE {"write:gpg"})
          /\ IF run_or_echo(DRY_RUN, rc) # 0
             THEN Fatal("encrypt_failed") /\ UNCHANGED disk
             ELSE /\ pc' = "split"
                  /\ disk' = IF DRY_RUN THEN disk ELSE disk \cup {tmpfile \o ".gpg"}
                  /\ UNCHANGED abort
          /\ UNCHANGED <<archive_size, archiver_rc, tmpfile, primary_out, files_to_upload,
                         SUMMARY_JSON, pw_source>>
  /\ UNCHANGED <<inputVars, aloneVars, G, SELECTED_PATHS, uplVars, notVars, warnings>>

\* make_archive, the encryption block skipped.
EncryptSkip ==
  /\ pc = "encrypt"
  /\ ~EncryptApplies(G)
  /\ pc' = "split"
  /\ UNCHANGED <<inputVars, aloneVars, G, SELECTED_PATHS, disk, archVars, uplVars, notVars,
                 histVars, abort>>

\* The size strings the scenarios use, as _size_re reads them after
\* s.strip(): <<int of the digits, unit>> for a match; a string outside the
\* domain does not match.
SizeSyntax ==
  ("1k" :> <<1, "k">>) @@ ("1K" :> <<1, "K">>) @@ ("0k" :> <<0, "k">>)
  @@ ("1m" :> <<1, "m">>) @@ ("1g" :> <<1, "g">>) @@ (" 1k " :> <<1, "k">>)
  @@ ("2M" :> <<2, "M">>)

\* Mutant of parse_split_size: decimal units.
parse_split_size_decimal(s) ==
  IF s = "" THEN 0
  ELSE IF s \notin DOMAIN SizeSyntax THEN 0
  ELSE LET n    == SizeSyntax[s][1]
           unit == SizeSyntax[s][2] IN
       CASE unit \in {"k", "K"} -> n * 1000
         [] unit \in {"m", "M"} -> n * 1000 * 1000
         [] unit \in {"g", "G"} -> n * 1000 * 1000 * 1000

\* parse_split_size: bytes, or 0 for None.
parse_split_size(s) ==
  IF s = "" THEN 0
  ELSE IF s \notin DOMAIN SizeSyntax THEN 0
  ELSE LET n    == SizeSyntax[s][1]
           unit == SizeSyntax[s][2] IN
       CASE unit \in {"k", "K"} -> n * 1024
         [] unit \in {"m", "M"} -> n * 1024 * 1024
         [] unit \in {"g", "G"} -> n * 1024 * 1024 * 1024

\* f"{idx:03d}" for the chunk numbers of the model.
Pad3(i) == IF i < 10 THEN "00" \o ToString(i)
           ELSE IF i < 100 THEN "0" \o ToString(i) ELSE ToString(i)

\* do_python_split: the chunk paths, one per read of chunk_bytes bytes until
\* the file is exhausted.
RECURSIVE SplitFrom(_, _, _, _)
SplitFrom(remaining, prefix, chunk_bytes, i) ==
  IF remaining <= 0 THEN <<>>
  ELSE <<prefix \o Pad3(i)>> \o SplitFrom(remaining - chunk_bytes, prefix, chunk_bytes, i + 1)

do_python_split(size, prefix, chunk_bytes) == SplitFrom(size, prefix, chunk_bytes, 0)

Range(s) == {s[i] : i \in 1..Len(s)}

\* Mutant of PrimaryOut: the archiver's output whether or not it was encrypted.
PrimaryOutUnencrypted == tmpfile

\* "primary_out = encrypted_file or tmpfile".
PrimaryOut == IF encrypted_file # "" THEN encrypted_file ELSE tmpfile

\* Mutant of SplitUploadList: the unsplit artifact comes first.
SplitUploadListPrimaryFirst(g, parts, primary) ==
  IF g.KEEP_AFTER_SPLIT # 0 THEN <<primary>> \o parts
  ELSE IF g.RM_AFTER_SPLIT # 0 THEN parts
  ELSE <<primary>> \o parts

\* The list a real split leaves for upload, by the retention policy.
SplitUploadList(g, parts, primary) ==
  IF g.KEEP_AFTER_SPLIT # 0 THEN Append(parts, primary)
  ELSE IF g.RM_AFTER_SPLIT # 0 THEN parts
  ELSE Append(parts, primary)

\* make_archive, "Split (optional)".
Split ==
  /\ pc = "split"
  /\ pc' = "checksum"
  /\ primary_out' = PrimaryOut
  /\ LET b      == parse_split_size(G.SPLIT_SIZE)
         prefix == PrimaryOut \o ".part."
         parts  == do_python_split(archive_size, prefix, b) IN
     IF G.SPLIT_SIZE = ""
     THEN /\ files_to_upload' = <<PrimaryOut>>
          /\ UNCHANGED <<disk, histVars>>
     ELSE IF b = 0
     THEN /\ files_to_upload' = <<PrimaryOut>>
          /\ warnings' = warnings \cup {"invalid_split_size"}
          /\ UNCHANGED <<disk, stages, effects>>
     ELSE IF DRY_RUN
     THEN /\ files_to_upload' = <<PrimaryOut>>
          /\ stages' = Append(stages, "Split")
          /\ UNCHANGED <<disk, effects, warnings>>
     ELSE /\ files_to_upload' = SplitUploadList(G, parts, PrimaryOut)
          /\ stages' = Append(stages, "Split")
          /\ \E rmok \in BOOLEAN :
               LET remove == G.KEEP_AFTER_SPLIT = 0 /\ G.RM_AFTER_SPLIT # 0 IN
               /\ (~remove => rmok)
               /\ disk' = (disk \cup Range(parts))
                          \ (IF remove /\ rmok THEN {PrimaryOut} ELSE {})
               /\ effects' = effects
                    \cup (IF parts # <<>> THEN {"write:part"} ELSE {})
                    \cup (IF remove /\ rmok THEN {"delete:primary"} ELSE {})
               /\ warnings' = IF rmok THEN warnings
                              ELSE warnings \cup {"delete_failed"}
  /\ UNCHANGED <<inputVars, aloneVars, G, SELECTED_PATHS, archive_size, archiver_rc, tmpfile, encrypted_file,
                 SUMMARY_JSON, pw_source, uplVars, notVars, abort>>

\* make_archive, "Checksum": one sidecar per listed file; a file that cannot
\* be hashed is logged and skipped.  In a dry run the commands are only logged.
Checksum ==
  /\ pc = "checksum"
  /\ G.MAKE_CHECKSUM # 0
  /\ pc' = "summary"
  /\ stages' = Append(stages, "Checksum")
  /\ \E failed \in BOOLEAN :
       LET missing == \E i \in 1..Len(files_to_upload) : files_to_upload[i] \notin disk
           written == \E i \in 1..Len(files_to_upload) : files_to_upload[i] \in disk IN
       /\ (DRY_RUN \/ files_to_upload = <<>> => ~failed)
       /\ (~DRY_RUN /\ missing => failed)
       /\ effects' = IF DRY_RUN THEN effects
                     ELSE effects \cup (IF written THEN {"write:sha256"} ELSE {})
       /\ warnings' = IF failed THEN warnings \cup {"checksum_failed"} ELSE warnings
  /\ UNCHANGED <<inputVars, aloneVars, G, SELECTED_PATHS, disk, archVars, uplVars, notVars, abort>>

ChecksumSkip ==
  /\ pc = "checksum"
  /\ G.MAKE_CHECKSUM = 0
  /\ pc' = "summary"
  /\ UNCHANGED <<inputVars, aloneVars, G, SELECTED_PATHS, disk, archVars, uplVars, notVars,
                 histVars, abort>>

\* make_archive, "Summary JSON": the directory is made and the file written
\* whether or not the run is a dry run (only the size string differs).
Summarize ==
  /\ pc = "summary"
  /\ G.MAKE_SUMMARY # 0
  /\ pc' = "upload"
  /\ stages' = Append(stages, "Summarize")
  /\ SUMMARY_JSON' = (OUT_DIR \o "/" \o BASE) \o ".summary.json"
  /\ effects' = Mkdir(OUT_DIR, effects) \cup {"write:summary"}
  /\ disk' = disk \cup {OUT_DIR}
  /\ UNCHANGED <<inputVars, aloneVars, G, SELECTED_PATHS, archive_size, archiver_rc, tmpfile, encrypted_file,
                 primary_out, files_to_upload, pw_source, uplVars, notVars, warnings,
                 abort>>

SummarizeSkip ==
  /\ pc = "summary"
  /\ G.MAKE_SUMMARY = 0
  /\ pc' = "upload"
  /\ SUMMARY_JSON' = ""
  /\ UNCHANGED <<inputVars, aloneVars, G, SELECTED_PATHS, disk, archive_size, archiver_rc, tmpfile,
                 encrypted_file, primary_out, files_to_upload, pw_source, uplVars,
                 notVars, histVars, abort>>

\* ------------------------------------------------------------------ upload
\* headless_make_archive, 'FINAL_STATUS = "success"' and "if UPLOAD_TARGET:".
UploadBegin ==
  /\ pc = "upload"
  /\ FINAL_STATUS' = "success"
  /\ idx' = 1
  /\ IF UPLOAD_TARGET # ""
     THEN pc' = "upload_loop" /\ stages' = Append(stages, "Upload")
     ELSE pc' = "notify" /\ UNCHANGED stages
  /\ UNCHANGED <<inputVars, aloneVars, G, SELECTED_PATHS, disk, archVars, tool, tries, attempt,
                 delay, upl, notVars, effects, warnings, abort>>

\* Mutant of AutoTool: the cloud CLI is preferred to the generic sync tool.
AutoToolCloudFirst(target_is_s3, target_is_sftp) ==
  IF target_is_s3 /\ command_exists("aws") THEN "aws"
  ELSE IF command_exists("rclone") THEN "rclone"
  ELSE IF command_exists("lftp") THEN "lftp"
  ELSE IF target_is_sftp THEN "scp"
  ELSE "rclone"

\* "tool == 'auto'": the selection cascade of do_upload_one.
AutoTool(target_is_s3, target_is_sftp) ==
  IF command_exists("rclone") THEN "rclone"
  ELSE IF target_is_s3 /\ command_exists("aws") THEN "aws"
  ELSE IF command_exists("lftp") THEN "lftp"
  ELSE IF target_is_sftp THEN "scp"
  ELSE "rclone"

\* target.startswith(...) for the targets of the model.
StartsWithS3(t)   == t \in {"s3://bucket/path"}
StartsWithSftp(t) == t \in {"sftp://user@host:/dir"}

SelectTool(g) ==
  LET t == IF g.UPLOAD_TOOL # "" THEN g.UPLOAD_TOOL ELSE "auto" IN
  IF t = "auto" THEN AutoTool(StartsWithS3(g.UPLOAD_TARGET), StartsWithSftp(g.UPLOAD_TARGET))
  ELSE t

SupportedTools == {"rclone", "aws", "lftp", "scp"}

\* "tries = int(UPLOAD_RETRY or 3)".
RetryText(g) == IF g.UPLOAD_RETRY # "" THEN g.UPLOAD_RETRY ELSE "3"

\* A file of the list disappears from the disk before its turn (the output
\* directory is shared with the rest of the system).
FileVanishes ==
  /\ pc = "upload_loop"
  /\ idx <= Len(files_to_upload)
  /\ ~DRY_RUN
  /\ files_to_upload[idx] \in disk
  /\ disk' = disk \ {files_to_upload[idx]}
  /\ UNCHANGED <<inputVars, aloneVars, pc, G, SELECTED_PATHS, archVars, uplVars, notVars,
                 histVars, abort>>

\* Mutant of Uploadable: a dry run looks for the file as well.
UploadableIfExists(exists, dry) == exists

\* "if Path(f).exists() or DRY_RUN": the file is handed to do_upload_one.
Uploadable(exists, dry) == exists \/ dry

\* "for f in files_to_upload: if Path(f).exists() or DRY_RUN:" and the head of
\* do_upload_one up to its loop.
UploadNext ==
  /\ pc = "upload_loop"
  /\ idx <= Len(files_to_upload)
  /\ IF Uploadable(files_to_upload[idx] \in disk, DRY_RUN)
     THEN IF RetryText(G) \notin DOMAIN IntLiteral
          THEN /\ Fatal("retry_not_a_number")
               /\ UNCHANGED <<idx, tool, tries, attempt, delay, upl>>
          ELSE /\ tries' = IntLiteral[RetryText(G)]
               /\ tool' = SelectTool(G)
               /\ attempt' = 1
               /\ delay' = 2
               /\ upl' = Append(upl, [file |-> files_to_upload[idx], rcs |-> <<>>,
                                      result |-> "pending", sleeps |-> <<>>,
                                     removed |-> {}])
               /\ pc' = "attempt"
               /\ UNCHANGED <<idx, abort>>
     ELSE /\ upl' = Append(upl, [file |-> files_to_upload[idx], rcs |-> <<>>,
                                 result |-> "skipped", sleeps |-> <<>>,
                                removed |-> {}])
          /\ idx' = idx + 1
          /\ UNCHANGED <<pc, tool, tries, attempt, delay, abort>>
  /\ UNCHANGED <<inputVars, aloneVars, G, SELECTED_PATHS, disk, archVars, FINAL_STATUS, notVars,
                 histVars>>

\* The record of the file being uploaded.
Cur == upl[Len(upl)]
SetCur(r) == [upl EXCEPT ![Len(upl)] = r]

\* Mutant of StatusAfter: the status follows the last file only.
StatusAfterLastWins(status, rc) == IF rc # 0 THEN "failure" ELSE "success"

\* The run's status after do_upload_one returned rc for a file.
StatusAfter(status, rc) == IF rc # 0 THEN "failure" ELSE status

\* Mutant of Return: the loop over the files breaks at the first failure.
ReturnStopsAtFailure(rc) ==
  /\ FINAL_STATUS' = IF rc # 0 THEN "failure" ELSE FINAL_STATUS
  /\ idx' = idx + 1
  /\ pc' = IF rc # 0 THEN "notify" ELSE "upload_loop"

\* do_upload_one returns rc: back in the loop of headless_make_archive.
Return(rc) ==
  /\ FINAL_STATUS' = StatusAfter(FINAL_STATUS, rc)
  /\ idx' = idx + 1
  /\ pc' = "upload_loop"

\* Mutant of MayAttempt: one pass too many.
MayAttemptOffByOne(a, t) == a <= t + 1

\* The loop condition of do_upload_one.
MayAttempt(a, t) == a <= t

\* Mutant of RemoveAfterUpload: the local file is removed after any attempt.
RemoveAfterAnyAttempt(status, enabled, dry) == enabled # 0 /\ ~dry

\* "if rc == 0: ... if AFTER_UPLOAD_RM: run_or_echo(rm -f -- file)": whether
\* rm runs on the file after an attempt with this status.
RemoveAfterUpload(status, enabled, dry) == status = 0 /\ enabled # 0 /\ ~dry

\* One pass of the retry loop with a supported tool: the uploader runs; on
\* exit status 0 the file is reported uploaded (and removed when
\* AFTER_UPLOAD_RM is set), otherwise the attempt counter advances. The
\* paths rm takes away are kept in the file's record.
UploadAttempt ==
  /\ pc = "attempt"
  /\ MayAttempt(attempt, tries)
  /\ tool \in SupportedTools
  /\ \E rc \in ExitCodes, rmok \in BOOLEAN :
       LET status == run_or_echo(DRY_RUN, rc)
           remove == RemoveAfterUpload(status, G.AFTER_UPLOAD_RM, DRY_RUN)
           gone   == IF remove /\ rmok THEN {Cur.file} ELSE {} IN
       /\ (DRY_RUN => rc = 0)
       /\ (~remove => rmok)
       /\ effects' = effects \cup run_or_echo_effects(DRY_RUN, "proc:upload")
            \cup (IF status = 0 /\ ~DRY_RUN /\ tool = "rclone"
                  THEN {"proc:rclone check"} ELSE {})
            \cup (IF remove THEN {"proc:rm"} ELSE {})
            \cup (IF remove /\ rmok THEN {"delete:local"} ELSE {})
       /\ disk' = disk \ gone
       /\ warnings' = IF rmok THEN warnings ELSE warnings \cup {"delete_failed"}
       /\ IF status = 0
          THEN /\ upl' = SetCur([Cur EXCEPT !.rcs = Append(@, status), !.result = "ok",
                                            !.removed = gone])
               /\ Return(0)
               /\ UNCHANGED attempt
          ELSE /\ upl' = SetCur([Cur EXCEPT !.rcs = Append(@, status),
                                            !.removed = @ \cup gone])
               /\ attempt' = attempt + 1
               /\ pc' = "sleep"
               /\ UNCHANGED <<FINAL_STATUS, idx>>
  /\ UNCHANGED <<inputVars, aloneVars, G, SELECTED_PATHS, archVars, tool, tries, delay, notVars,
                 stages, abort>>

\* One pass of the retry loop with a tool the code does not know: "return 1"
\* without running anything.
UploadUnsupported ==
  /\ pc = "attempt"
  /\ MayAttempt(attempt, tries)
  /\ tool \notin SupportedTools
  /\ upl' = SetCur([Cur EXCEPT !.result = "unsupported"])
  /\ Return(1)
  /\ UNCHANGED <<inputVars, aloneVars, G, SELECTED_PATHS, disk, archVars, tool, tries, attempt,
                 delay, notVars, histVars, abort>>

\* The loop condition fails: "Upload gagal setelah {tries} percobaan", return 1.
UploadGiveUp ==
  /\ pc = "attempt"
  /\ ~MayAttempt(attempt, tries)
  /\ upl' = SetCur([Cur EXCEPT !.result = "failed"])
  /\ Return(1)
  /\ UNCHANGED <<inputVars, aloneVars, G, SELECTED_PATHS, disk, archVars, tool, tries, attempt,
                 delay, notVars, histVars, abort>>

\* The backoff after a failed attempt: "time.sleep(delay); delay *= 2".
Backoff ==
  /\ pc = "sleep"
  /\ upl' = SetCur([Cur EXCEPT !.sleeps = Append(@, delay)])
  /\ delay' = delay * 2
  /\ pc' = "attempt"
  /\ UNCHANGED <<inputVars, aloneVars, G, SELECTED_PATHS, disk, archVars, FINAL_STATUS, idx, tool,
                 tries, attempt, notVars, histVars, abort>>

\* Mutant of AfterInterrupt: the interrupt counts as a failed attempt, or ends
\* the delay early.
AfterInterruptSwallowed(at) == IF at = "attempt" THEN "sleep" ELSE "attempt"

\* Where control goes when KeyboardInterrupt is raised at a position of
\* do_upload_one: "except KeyboardInterrupt: raise" in run_or_echo and around
\* time.sleep, no handler in any caller, so the process ends in the exception.
AfterInterrupt(at) == "interrupted"

\* An interrupt arrives while the uploader of the current attempt is running.
InterruptAttempt ==
  /\ pc = "attempt"
  /\ MayAttempt(attempt, tries)
  /\ tool \in SupportedTools
  /\ ~DRY_RUN
  /\ upl' = SetCur([Cur EXCEPT !.result = "interrupted"])
  /\ effects' = effects \cup {"proc:upload"}
  /\ pc' = AfterInterrupt("attempt")
  /\ abort' = "interrupt"
  /\ UNCHANGED <<inputVars, aloneVars, G, SELECTED_PATHS, disk, archVars, FINAL_STATUS, idx,
                 tool, tries, attempt, delay, notVars, stages, warnings>>

\* An interrupt arrives during time.sleep(delay).
InterruptBackoff ==
  /\ pc = "sleep"
  /\ upl' = SetCur([Cur EXCEPT !.result = "interrupted"])
  /\ pc' = AfterInterrupt("sleep")
  /\ abort' = "interrupt"
  /\ UNCHANGED <<inputVars, aloneVars, G, SELECTED_PATHS, disk, archVars, FINAL_STATUS, idx,
                 tool, tries, attempt, delay, notVars, histVars>>

\* Mutant of UploadEnd: after the uploads the run goes back to the summary.
UploadEndBackToSummary ==
  /\ pc = "upload_loop"
  /\ idx > Len(files_to_upload)
  /\ pc' = "summary"
  /\ UNCHANGED <<inputVars, aloneVars, G, SELECTED_PATHS, disk, archVars, uplVars, notVars,
                 histVars, abort>>

\* The for loop over files_to_upload is exhausted.
UploadEnd ==
  /\ pc = "upload_loop"
  /\ idx > Len(files_to_upload)
  /\ pc' = "notify"
  /\ UNCHANGED <<inputVars, aloneVars, G, SELECTED_PATHS, disk, archVars, uplVars, notVars,
                 histVars, abort>>

\* ------------------------------------------------------------ notification
\* Mutant of EventOf: the event does not follow the status.
EventOfAlwaysSuccess(status) == "on_success"

\* The event headless_make_archive passes for a status.
EventOf(status) == IF status = "success" THEN "on_success" ELSE "on_failure"

\* "\n".join(files): the paths in order, a newline between two of them.
RECURSIVE JoinLines(_)
JoinLines(files) ==
  IF files = <<>> THEN ""
  ELSE IF Len(files) = 1 THEN files[1]
  ELSE files[1] \o "\n" \o JoinLines(Tail(files))

\* Mutant of PluginEnv: FILES names the primary output only.
PluginEnvPrimaryOnly(event, status, primary, files, dry) ==
  [ EVENT |-> event, STATUS |-> status, ARCHIVE_PATH |-> primary, FILES |-> primary,
    DRY_RUN |-> IF dry THEN "1" ELSE "0" ]

\* The environment run_plugins builds once for the plugins of one dispatch;
\* str(int(DRY_RUN)) of a flag that is 0 or 1.
PluginEnv(event, status, primary, files, dry) ==
  [ EVENT |-> event, STATUS |-> status, ARCHIVE_PATH |-> primary,
    FILES |-> JoinLines(files), DRY_RUN |-> IF dry THEN "1" ELSE "0" ]

\* headless_make_archive calls run_plugins once, with the event of the status.
NotifyDispatch ==
  /\ pc = "notify"
  /\ dispatches' = Append(dispatches,
        PluginEnv(EventOf(FINAL_STATUS), FINAL_STATUS, primary_out, files_to_upload,
                  DRY_RUN))
  /\ stages' = Append(stages, "Notify")
  /\ nidx' = 1
  /\ handled' = <<>>
  /\ pc' = "notify_loop"
  /\ UNCHANGED <<inputVars, aloneVars, G, SELECTED_PATHS, disk, archVars, uplVars, effects,
                 warnings, abort>>

Builtins == {"telegram", "email"}

\* Mutant of AfterTarget: a target that is skipped ends the loop.
AfterTargetStopsAtSkip(n, how, len) ==
  IF how \in {"env_missing", "raised", "unresolved"} THEN len + 1 ELSE n + 1

\* "for tgt in NOTIFY_TARGETS": the position after the entry at n was handled;
\* every branch of the body, the except clause included, falls through to the
\* next entry.
AfterTarget(n, how, len) == n + 1

\* run_plugins, one entry of NOTIFY_TARGETS: a built-in notifier (skipped when
\* its environment or its mail/curl tool is missing), or a plugin that is
\* resolved and called, resolved and raising, or not resolved. A resolved
\* plugin is handed env by subprocess.call; in a dry run it is only logged.
NotifyTarget ==
  /\ pc = "notify_loop"
  /\ nidx <= Len(NOTIFY_TARGETS)
  /\ LET tgt == NOTIFY_TARGETS[nidx] IN
     \E how \in {"sent", "env_missing", "called", "raised", "unresolved"} :
       /\ (tgt \in Builtins) = (how \in {"sent", "env_missing"})
       /\ (how = "raised" => ~DRY_RUN)
       /\ nidx' = AfterTarget(nidx, how, Len(NOTIFY_TARGETS))
       /\ handled' = Append(handled,
            IF how \in {"called", "raised"} /\ ~DRY_RUN
            THEN [target |-> tgt, how |-> how, env |-> dispatches[Len(dispatches)]]
            ELSE [target |-> tgt, how |-> how])
       /\ effects' = effects \cup
            (IF DRY_RUN THEN {}
             ELSE IF how = "sent" THEN {"proc:notifier"}
             ELSE IF how = "called" THEN {"proc:plugin"} ELSE {})
       /\ warnings' = warnings \cup
            (IF how = "raised" THEN {"plugin_error"}
             ELSE IF how = "unresolved" THEN {"plugin_unresolved"} ELSE {})
  /\ UNCHANGED <<inputVars, aloneVars, pc, G, SELECTED_PATHS, disk, archVars, uplVars,
                 dispatches, stages, abort>>

\* run_plugins returns; headless mode ends the process, interactive mode
\* returns to the browser.
NotifyEnd ==
  /\ pc = "notify_loop"
  /\ nidx > Len(NOTIFY_TARGETS)
  /\ pc' = IF NO_UI THEN "exit0" ELSE "ui"
  /\ UNCHANGED <<inputVars, aloneVars, G, SELECTED_PATHS, disk, archVars, uplVars, notVars,
                 histVars, abort>>

\* ---------------------------------------------------------------- scenarios
AllTools == {"zip", "7z", "tar", "gzip", "gpg", "rclone", "aws", "lftp"}

\* Paths present before the process starts: two sources and the output directory.
Disk0 == {"srcA", "srcB", "out"}

NoConfig == [kind |-> "missing", lines |-> <<>>]
ConfigOf(lines) == [kind |-> "file", lines |-> lines]

Bool == {FALSE, TRUE}

\* The command line of a run on source srcA, headless or interactive.
RunArgs(noui) ==
  [NoArgs EXCEPT !.NO_UI = noui, !.SOURCES = IF noui THEN <<"srcA">> ELSE <<>>]

WithConfig(a, lines) ==
  IF lines = <<>> THEN a ELSE [a EXCEPT !.CONFIG_FILE = "backup.conf"]

Scenario(a, lines, inst, d) ==
  [args |-> WithConfig(a, lines), cfg |-> IF lines = <<>> THEN NoConfig ELSE ConfigOf(lines),
   installed |-> inst, disk |-> d]

\* Archive creation: every format (an unknown one through the config file),
\* the encryption switches, dry and real runs, tools present or missing.
ArchiveScenarios ==
  { Scenario([RunArgs(noui) EXCEPT !.ARCHIVE_FORMAT = IF fmt = "rar" THEN "" ELSE fmt,
                                   !.ZIP_AES = aes, !.ZIP_ENCRYPT = enc,
                                   !.ZIP_PASSWORD = pw, !.USE_GPG = gpg, !.DRY_RUN = dry],
             IF fmt = "rar" THEN << <<"ARCHIVE_FORMAT", "rar">> >> ELSE <<>>,
             inst, Disk0) :
      noui \in Bool, fmt \in {"", "tgz", "tar.gz", "tar", "7z", "rar"},
      aes \in Bool, enc \in Bool, pw \in {"", "secret"}, gpg \in Bool, dry \in Bool,
      inst \in {AllTools, AllTools \ {"gpg", "gzip"}, {"gpg"}} }

\* Splitting, checksums and the summary: size strings, retention switches from
\* the command line and the config file, the toggles of the optional outputs.
SplitScenarios ==
  { Scenario([RunArgs(noui) EXCEPT !.ARCHIVE_FORMAT = "tgz", !.USE_GPG = gpg,
                                   !.SPLIT_SIZE = split, !.RM_AFTER_SPLIT = rm,
                                   !.DRY_RUN = dry],
             (IF keep0 THEN << <<"KEEP_AFTER_SPLIT", "0">> >> ELSE <<>>)
             \o (IF sums THEN << <<"MAKE_CHECKSUM", "1">>, <<"MAKE_SUMMARY", "yes">> >>
                 ELSE <<>>),
             AllTools, d) :
      noui \in Bool, gpg \in Bool, split \in {"1k", "0k", "1kb", "1m"}, rm \in Bool,
      keep0 \in Bool, sums \in Bool, dry \in Bool, d \in {Disk0, Disk0 \ {"out"}} }

\* Retry counts the upload scenarios configure ("" leaves the default).
RetryTexts == {""} \cup {ToString(n) : n \in 0..MaxRetry}

\* Upload with retries: split or not, dry or real, deletion after upload, with
\* or without the optional stages (encryption, checksums, summary), on one
\* target with the tool chosen automatically.
RetryScenarios ==
  { Scenario([RunArgs(TRUE) EXCEPT !.ARCHIVE_FORMAT = "tgz", !.SPLIT_SIZE = split,
                                   !.USE_GPG = sums,
                                   !.UPLOAD_TARGET = "gdrive:Backups",
                                   !.UPLOAD_RETRY = retry, !.AFTER_UPLOAD_RM = rm,
                                   !.DRY_RUN = dry],
             IF sums THEN << <<"MAKE_CHECKSUM", "1">>, <<"MAKE_SUMMARY", "yes">> >>
             ELSE <<>>,
             AllTools, Disk0) :
      split \in {"", "1k"}, retry \in RetryTexts, rm \in Bool, dry \in Bool,
      sums \in Bool }

\* Tool selection and notification: targets, tools (one the code does not
\* know and a retry count that is no number, both through the config file),
\* installed uploaders, notify lists, headless and interactive.
ToolScenarios ==
  { Scenario([RunArgs(noui) EXCEPT !.ARCHIVE_FORMAT = "tar", !.UPLOAD_TARGET = target,
                                   !.UPLOAD_TOOL = IF utool \in {"ftp", "x"} THEN "" ELSE utool,
                                   !.UPLOAD_RETRY = "1",
                                   !.NOTIFY_TARGETS = notify, !.DRY_RUN = dry],
             IF utool = "ftp" THEN << <<"UPLOAD_TOOL", "ftp">> >>
             ELSE IF utool = "x" THEN << <<"UPLOAD_RETRY", "many">> >> ELSE <<>>,
             inst, Disk0) :
      noui \in Bool,
      target \in {"", "gdrive:Backups", "s3://bucket/path", "sftp://user@host:/dir"},
      utool \in {"", "auto", "scp", "ftp", "x"},
      notify \in {<<>>, << <<"telegram", "hook">> >>, << <<"hook.sh">>, <<"email">> >>},
      dry \in Bool,
      inst \in {AllTools, AllTools \ {"rclone"}, AllTools \ {"rclone", "aws", "lftp"}} }

\* Plugins after runs that produce several files: split parts, a checksum
\* file, uploads that succeed or fail, two plugins around a built-in notifier.
PluginScenarios ==
  { Scenario([RunArgs(TRUE) EXCEPT !.ARCHIVE_FORMAT = "tgz", !.SPLIT_SIZE = split,
                                   !.UPLOAD_TARGET = "gdrive:Backups",
                                   !.UPLOAD_RETRY = "1",
                                   !.NOTIFY_TARGETS = << <<"hook", "email", "hook.sh">> >>,
                                   !.DRY_RUN = dry],
             IF sums THEN << <<"MAKE_CHECKSUM", "1">> >> ELSE <<>>,
             AllTools, Disk0) :
      split \in {"", "1k"}, sums \in Bool, dry \in Bool }

\* Automatic tool selection: every combination of installed uploaders with
\* every target scheme, the tool left unset or set to "auto".
Uploaders == {"rclone", "aws", "lftp"}
AutoScenarios ==
  { Scenario([RunArgs(TRUE) EXCEPT !.ARCHIVE_FORMAT = "tar", !.UPLOAD_TARGET = target,
                                   !.UPLOAD_TOOL = utool, !.UPLOAD_RETRY = "1"],
             <<>>, (AllTools \ Uploaders) \cup inst, Disk0) :
      target \in {"gdrive:Backups", "s3://bucket/path", "sftp://user@host:/dir"},
      utool \in {"", "auto"},
      inst \in SUBSET Uploaders }

\* The config file named on the command line is missing or cannot be read, a
\* source does not exist, or nothing is selected.
EdgeScenarios ==
  { [args |-> [RunArgs(noui) EXCEPT !.CONFIG_FILE = "backup.conf", !.SOURCES = srcs,
                                    !.UPLOAD_TARGET = "gdrive:Backups",
                                    !.NOTIFY_TARGETS = << <<"hook">> >>],
     cfg |-> [kind |-> kind, lines |-> << <<"DRY_RUN", "1">> >>],
     installed |-> AllTools, disk |-> Disk0] :
      noui \in Bool, kind \in {"missing", "unreadable", "file"},
      srcs \in {<<>>, <<"srcA">>, <<"gone">>, <<"gone", "srcB">>} }

\* Size strings: both cases of the units, surrounding blanks, every unit,
\* strings the pattern does not match.
SizeScenarios ==
  { Scenario([RunArgs(TRUE) EXCEPT !.ARCHIVE_FORMAT = "tar", !.SPLIT_SIZE = split,
                                   !.DRY_RUN = dry],
             <<>>, AllTools, Disk0) :
      split \in {"1K", " 1k ", "2M", "1g", "k", "1", "1.5k", "-1k"}, dry \in Bool }

RunScenarios ==
  ArchiveScenarios \cup SplitScenarios \cup RetryScenarios \cup ToolScenarios
  \cup EdgeScenarios \cup SizeScenarios \cup PluginScenarios \cup AutoScenarios

\* The state of the process when main is entered with a scenario's inputs.
Start(sc) ==
  /\ args = sc.args
  /\ cfgfile = sc.cfg
  /\ installed = sc.installed
  /\ disk = sc.disk
  /\ pc = "main"
  /\ G = Defaults
  /\ SELECTED_PATHS = <<>>
  /\ archive_size = 0
  /\ archiver_rc = 0
  /\ tmpfile = ""
  /\ encrypted_file = ""
  /\ primary_out = ""
  /\ files_to_upload = <<>>
  /\ SUMMARY_JSON = ""
  /\ pw_source = "none"
  /\ FINAL_STATUS = "success"
  /\ idx = 0 /\ tool = "" /\ tries = 0 /\ attempt = 0 /\ delay = 0
  /\ nidx = 0
  /\ stages = <<>>
  /\ upl = <<>>
  /\ dispatches = <<>>
  /\ handled = <<>>
  /\ effects = {}
  /\ warnings = {}
  /\ abort = ""
  /\ split_src = <<>> /\ split_chunk = 1 /\ split_rest = <<>> /\ split_parts = <<>>
  /\ ResolveIdle /\ SelectIdle /\ BrowseIdle

Init == \E sc \in RunScenarios : Start(sc)

Next ==
  \/ MainLoadConfig \/ ApplyArgs \/ MainBranch
  \/ UiToggle \/ UiClear \/ UiArchive \/ UiQuit
  \/ HeadlessStart \/ Prepare \/ Archive \/ Encrypt \/ EncryptSkip \/ Split
  \/ Checksum \/ ChecksumSkip \/ Summarize \/ SummarizeSkip
  \/ UploadBegin \/ FileVanishes \/ UploadNext \/ UploadAttempt \/ UploadUnsupported
  \/ UploadGiveUp \/ Backoff \/ UploadEnd
  \/ InterruptAttempt \/ InterruptBackoff
  \/ NotifyDispatch \/ NotifyTarget \/ NotifyEnd

Spec == Init /\ [][Next]_vars

\* ------------------------------------------- configuration resolution alone
\* Lines a config file of the resolution scenarios is made of.
CfgEntries ==
  { <<"ARCHIVE_FORMAT", "tar">>, <<"DRY_RUN", "TRUE">>, <<"MAKE_CHECKSUM", "1">>,
    <<"KEEP_AFTER_SPLIT", "0">>, <<"RM_AFTER_SPLIT", "1">>, <<"NO_UI", " yes ">>,
    <<"SOURCES", <<"srcA", " srcB">>>>, <<"NOTIFY", <<"telegram", " ", "hook">>>>,
    <<"EXCLUDES", <<"*.log">>>> }

RECURSIVE SeqsUpTo(_, _)
\* Sequences over S of length at most n.
SeqsUpTo(S, n) ==
  IF n = 0 THEN {<<>>}
  ELSE LET shorter == SeqsUpTo(S, n - 1) IN
       shorter \cup {Append(q, e) : q \in shorter, e \in S}

ConfigFiles ==
  {ConfigOf(lines) : lines \in SeqsUpTo(CfgEntries, MaxCfgLines)}
  \cup {NoConfig, [kind |-> "unreadable", lines |-> <<>>]}

\* Command lines that set scalar options / list options.
ScalarArgs ==
  { [NoArgs EXCEPT !.ARCHIVE_FORMAT = fmt, !.DRY_RUN = dry, !.KEEP_AFTER_SPLIT = keep,
                   !.RM_AFTER_SPLIT = rm, !.NO_UI = noui, !.MAKE_CHECKSUM = chk] :
      fmt \in {"", "tar.gz", "7z"}, dry \in Bool, keep \in Bool, rm \in Bool,
      noui \in Bool, chk \in {"default", "True", "False"} }

ListArgs ==
  { [NoArgs EXCEPT !.SOURCES = srcs, !.NOTIFY_TARGETS = notify, !.EXCLUDES = excl,
                   !.MAKE_SUMMARY = summ] :
      srcs \in {<<>>, <<"srcB">>, <<"srcA", "">>},
      notify \in {<<>>, << <<"email", "hook">>, <<>> >>},
      excl \in {<<>>, << <<"*.tmp", "">>, <<"*.log">> >>},
      summ \in {"default", "True", "False"} }

ConfigScenarios ==
  { [args |-> [a EXCEPT !.CONFIG_FILE = IF named THEN "backup.conf" ELSE ""],
     cfg |-> f, installed |-> AllTools, disk |-> Disk0] :
      a \in ScalarArgs \cup ListArgs, f \in ConfigFiles, named \in Bool }

InitConfig == \E sc \in ConfigScenarios : Start(sc)

NextConfig == MainLoadConfig \/ ApplyArgs \/ MainBranch

SpecConfig == InitConfig /\ [][NextConfig]_vars

\* ---------------------------------------------------- do_python_split alone
\* Values of a byte, as far as the split can tell them apart.
Bytes == {0, 1}

\* Files of at most n bytes.
FilesUpTo(n) == UNION {[1..k -> Bytes] : k \in 0..n}

Min(a, b) == IF a <= b THEN a ELSE b

\* Mutant of Read: a false end of file when fewer than chunk_bytes bytes are left.
ReadWholeChunksOnly(rest, chunk_bytes) ==
  IF Len(rest) < chunk_bytes THEN <<>> ELSE SubSeq(rest, 1, chunk_bytes)

\* src.read(chunk_bytes): at most chunk_bytes bytes from the file position.
Read(rest, chunk_bytes) == SubSeq(rest, 1, Min(chunk_bytes, Len(rest)))

\* The prefix make_archive passes: the primary output and ".part.".
SplitPrefix == "out/bk.tar.part."

\* One pass of the loop of do_python_split with a chunk read: the part file
\* of the next number is written, the position advances by the bytes read.
SplitWrite ==
  /\ pc = "split_read"
  /\ LET chunk == Read(split_rest, split_chunk) IN
     /\ chunk # <<>>
     /\ split_parts' = Append(split_parts,
                              [path |-> SplitPrefix \o Pad3(Len(split_parts)),
                               data |-> chunk])
     /\ split_rest' = SubSeq(split_rest, Len(chunk) + 1, Len(split_rest))
  /\ UNCHANGED <<inputVars, pc, G, SELECTED_PATHS, disk, archVars, uplVars, notVars,
                 histVars, abort, split_src, split_chunk, resolveVars, selVars, browseVars>>

\* The read returns nothing ("if not chunk: break"): the parts are returned.
SplitReturn ==
  /\ pc = "split_read"
  /\ Read(split_rest, split_chunk) = <<>>
  /\ pc' = "split_done"
  /\ UNCHANGED <<inputVars, G, SELECTED_PATHS, disk, archVars, uplVars, notVars,
                 histVars, abort, splitVars, resolveVars, selVars, browseVars>>

\* do_python_split is entered with a file of some bytes and a chunk size.
InitSplit ==
  /\ \E data \in FilesUpTo(MaxFileBytes), c \in 1..MaxChunkBytes :
       /\ split_src = data /\ split_rest = data /\ split_chunk = c
  /\ split_parts = <<>>
  /\ pc = "split_read"
  /\ args = NoArgs /\ cfgfile = NoConfig /\ installed = AllTools /\ disk = Disk0
  /\ G = Defaults
  /\ SELECTED_PATHS = <<>>
  /\ archive_size = 0 /\ archiver_rc = 0
  /\ tmpfile = "" /\ encrypted_file = "" /\ primary_out = ""
  /\ files_to_upload = <<>> /\ SUMMARY_JSON = "" /\ pw_source = "none"
  /\ FINAL_STATUS = "success"
  /\ idx = 0 /\ tool = "" /\ tries = 0 /\ attempt = 0 /\ delay = 0
  /\ nidx = 0
  /\ stages = <<>> /\ upl = <<>> /\ dispatches = <<>> /\ handled = <<>>
  /\ effects = {} /\ warnings = {} /\ abort = ""
  /\ ResolveIdle /\ SelectIdle /\ BrowseIdle

NextSplit == SplitWrite \/ SplitReturn

SpecSplit == InitSplit /\ [][NextSplit]_vars

\* --------------------------------------------------- _resolve_plugin alone
\* The default of PLUGINS_DIR.
PluginsDir == "./plugins.d"

\* exts = ["", ".py", ".sh"], as the suffixes each one appends.
Exts == << <<>>, <<".py">>, <<".sh">> >>

\* The text of a path.
RECURSIVE Suffixes(_)
Suffixes(sufs) == IF sufs = <<>> THEN "" ELSE Head(sufs) \o Suffixes(Tail(sufs))
Text(p) == (p.dir \o p.name) \o Suffixes(p.sufs)

\* "tgt if ext == '' else tgt + ext".
WithExt(p, ext) == [p EXCEPT !.sufs = @ \o ext]

\* "os.path.isabs(tgt) or '/' in tgt".
HasSlash(p) == p.dir # ""

\* os.path.join(plugins_dir, p) for a relative p.
Join(dir, p) == [p EXCEPT !.dir = (dir \o "/") \o @]

\* The candidates from the target as given, and from the target under the
\* plugins directory: one per entry of exts.
Literal(tgt) == [i \in 1..3 |-> WithExt(tgt, Exts[i])]
UnderDir(tgt, plugins_dir) == [i \in 1..3 |-> Join(plugins_dir, WithExt(tgt, Exts[i]))]

\* Mutant of Candidates: the literal path is probed first, then the name under
\* the plugins directory, for every target.
CandidatesBoth(tgt, plugins_dir) == Literal(tgt) \o UnderDir(tgt, plugins_dir)

\* The candidates of _resolve_plugin, in order.
Candidates(tgt, plugins_dir) ==
  IF HasSlash(tgt) THEN Literal(tgt) ELSE UnderDir(tgt, plugins_dir)

\* os.path.isfile, os.access(p, os.X_OK) and p.endswith(".py").
isfile(fs, p) == p \in DOMAIN fs
access_X(fs, p) == fs[p] = "x"
endswith(p, suf) == p.sufs # <<>> /\ p.sufs[Len(p.sufs)] = suf

\* sys.executable.
Interpreter == "python"

\* The candidate makes the loop return.
Returns(fs, p) == isfile(fs, p) /\ (access_X(fs, p) \/ endswith(p, ".py"))

\* "for p in candidates", a pass that returns: the file is executable and is
\* the command itself, or it ends in .py and is handed to the interpreter.
ResolveReturn ==
  /\ pc = "resolve"
  /\ res_i <= Len(Candidates(res_tgt, PluginsDir))
  /\ LET p == Candidates(res_tgt, PluginsDir)[res_i] IN
     /\ Returns(res_fs, p)
     /\ res_out' = IF access_X(res_fs, p)
                   THEN [cmd |-> <<Text(p)>>, resolved |-> Text(p)]
                   ELSE [cmd |-> <<Interpreter, Text(p)>>, resolved |-> Text(p)]
  /\ pc' = "resolved"
  /\ UNCHANGED <<inputVars, G, SELECTED_PATHS, disk, archVars, uplVars, notVars,
                 histVars, abort, splitVars, selVars, browseVars, res_tgt, res_fs, res_i>>

\* A pass that does not return: no such file, or a file that is neither
\* executable nor a .py.
ResolveSkip ==
  /\ pc = "resolve"
  /\ res_i <= Len(Candidates(res_tgt, PluginsDir))
  /\ ~Returns(res_fs, Candidates(res_tgt, PluginsDir)[res_i])
  /\ res_i' = res_i + 1
  /\ UNCHANGED <<inputVars, pc, G, SELECTED_PATHS, disk, archVars, uplVars, notVars,
                 histVars, abort, splitVars, selVars, browseVars, res_tgt, res_fs, res_out>>

\* The candidates are exhausted: "return (None, None)".
ResolveNone ==
  /\ pc = "resolve"
  /\ res_i > Len(Candidates(res_tgt, PluginsDir))
  /\ res_out' = NotResolved
  /\ pc' = "resolved"
  /\ UNCHANGED <<inputVars, G, SELECTED_PATHS, disk, archVars, uplVars, notVars,
                 histVars, abort, splitVars, selVars, browseVars, res_tgt, res_fs, res_i>>

\* Notify targets that are no built-in names: a bare name or a relative path,
\* with or without a suffix.
PluginTargets ==
  { [dir |-> d, name |-> "hook", sufs |-> x] : d \in {"", "sub/"},
                                              x \in {<<>>, <<".py">>, <<".sh">>} }

\* The paths a lookup of tgt can meet, as given or under the plugins directory.
Probed(tgt) ==
  {Literal(tgt)[i] : i \in 1..3} \cup {UnderDir(tgt, PluginsDir)[i] : i \in 1..3}

\* The file systems over a set of paths: each path absent, a plain file or an
\* executable file.
FileSystems(paths) == UNION {[S -> {"r", "x"}] : S \in SUBSET paths}

\* _resolve_plugin is entered with a target and a file system.
InitResolve ==
  /\ \E tgt \in PluginTargets : \E fs \in FileSystems(Probed(tgt)) :
       res_tgt = tgt /\ res_fs = fs
  /\ res_i = 1 /\ res_out = NotResolved
  /\ pc = "resolve"
  /\ split_src = <<>> /\ split_chunk = 1 /\ split_rest = <<>> /\ split_parts = <<>>
  /\ args = NoArgs /\ cfgfile = NoConfig /\ installed = AllTools /\ disk = Disk0
  /\ G = Defaults
  /\ SELECTED_PATHS = <<>>
  /\ archive_size = 0 /\ archiver_rc = 0
  /\ tmpfile = "" /\ encrypted_file = "" /\ primary_out = ""
  /\ files_to_upload = <<>> /\ SUMMARY_JSON = "" /\ pw_source = "none"
  /\ FINAL_STATUS = "success"
  /\ idx = 0 /\ tool = "" /\ tries = 0 /\ attempt = 0 /\ delay = 0
  /\ nidx = 0
  /\ stages = <<>> /\ upl = <<>> /\ dispatches = <<>> /\ handled = <<>>
  /\ effects = {} /\ warnings = {} /\ abort = ""
  /\ SelectIdle /\ BrowseIdle

NextResolve == ResolveReturn \/ ResolveSkip \/ ResolveNone

SpecResolve == InitResolve /\ [][NextResolve]_vars

\* ---------------------------------------------------------- selection alone
MaxToggles == 3
MaxSources == 3

\* Paths the browser can show and --source can name.
SelPaths == {"srcA", "srcB"}

\* ENTER on an entry: toggle_selected.
SelToggle ==
  /\ pc = "select"
  /\ \E p \in SelPaths :
       /\ sel_count[p] < MaxToggles
       /\ SELECTED_PATHS' = toggle_selected(SELECTED_PATHS, p)
       /\ sel_count' = [sel_count EXCEPT ![p] = @ + 1]
       /\ sel_op' = [kind |-> "toggle", path |-> p]
  /\ sel_prev' = SELECTED_PATHS
  /\ UNCHANGED <<inputVars, pc, G, disk, archVars, uplVars, notVars, histVars, abort,
                 splitVars, resolveVars, browseVars, sel_base>>

\* Key U: clear_selected.
SelClear ==
  /\ pc = "select"
  /\ SELECTED_PATHS' = <<>>
  /\ sel_base' = <<>>
  /\ sel_count' = [p \in SelPaths |-> 0]
  /\ sel_op' = [kind |-> "clear", path |-> ""]
  /\ sel_prev' = SELECTED_PATHS
  /\ UNCHANGED <<inputVars, pc, G, disk, archVars, uplVars, notVars, histVars, abort,
                 splitVars, resolveVars, browseVars>>

\* The browser holds a selection: empty as at the start of the process, or as
\* apply_sources_if_any left it at an earlier archive request.
InitSelect ==
  /\ \E sources \in SeqsUpTo(SelPaths, MaxSources), exists \in SUBSET SelPaths :
       /\ SELECTED_PATHS = apply_sources_if_any(<<>>, sources, exists)
       /\ sel_base = SELECTED_PATHS
       /\ sel_prev = SELECTED_PATHS
  /\ sel_count = [p \in SelPaths |-> 0]
  /\ sel_op = NoOp
  /\ pc = "select"
  /\ ResolveIdle /\ BrowseIdle
  /\ split_src = <<>> /\ split_chunk = 1 /\ split_rest = <<>> /\ split_parts = <<>>
  /\ args = NoArgs /\ cfgfile = NoConfig /\ installed = AllTools /\ disk = Disk0
  /\ G = Defaults
  /\ archive_size = 0 /\ archiver_rc = 0
  /\ tmpfile = "" /\ encrypted_file = "" /\ primary_out = ""
  /\ files_to_upload = <<>> /\ SUMMARY_JSON = "" /\ pw_source = "none"
  /\ FINAL_STATUS = "success"
  /\ idx = 0 /\ tool = "" /\ tries = 0 /\ attempt = 0 /\ delay = 0
  /\ nidx = 0
  /\ stages = <<>> /\ upl = <<>> /\ dispatches = <<>> /\ handled = <<>>
  /\ effects = {} /\ warnings = {} /\ abort = ""

NextSelect == SelToggle \/ SelClear

SpecSelect == InitSelect /\ [][NextSelect]_vars

\* ------------------------------------------------------------ browser alone
\* PAGE_SIZE, scaled down to the directories of the model.
PAGE_SIZE == 2

\* Digit keys that are looked at.
MaxDigit == 3

\* os.path.basename of the paths of the model.
Basename(p) ==
  CASE p = "t/a" -> "a" [] p = "t/b" -> "b" [] p = "t/d" -> "d"
    [] p = "t/d/x" -> "x" [] p = "t/d/y" -> "y"

\* Path(p).is_dir(): t/d is the one subdirectory.
is_dir(p) == p = "t/d"

\* The filters typed in the model and re.search(filter_regex, name) for them.
Filters == {"", "b|x", "q"}
Search(regex, name) ==
  CASE regex = "b|x" -> name \in {"b", "x"}
    [] regex = "q" -> FALSE

\* list_visual, add_items: the paths whose name passes the filter.
RECURSIVE add_items(_, _)
add_items(paths, regex) ==
  IF paths = <<>> THEN <<>>
  ELSE (IF regex # "" /\ ~Search(regex, Basename(Head(paths))) THEN <<>>
        ELSE <<Head(paths)>>) \o add_items(Tail(paths), regex)

\* list_visual: the entries of target_dir, then those of the expanded
\* directory if it still is one.
list_visual(dir, regex, expanded) ==
  add_items(dir.base, regex)
  \o (IF "t/d" \in expanded /\ InSeq(dir.base, "t/d") THEN add_items(dir.subs, regex)
      ELSE <<>>)

Max(a, b) == IF a >= b THEN a ELSE b

\* "total_pages = (total + PAGE_SIZE - 1) // PAGE_SIZE".
TotalPages(total) == (total + PAGE_SIZE - 1) \div PAGE_SIZE

\* "page = max(1, min(page, total_pages))".
ClampPage(pg, total) == Max(1, Min(pg, TotalPages(total)))

\* start and end of a page.
Start_(pg) == (pg - 1) * PAGE_SIZE
End_(pg, total) == Min(Start_(pg) + PAGE_SIZE, total)

\* Mutant of ClampCursor: the cursor is taken as it is.
ClampCursorNot(c, shown) == c

\* "cursor_index = max(0, min(cursor_index, max(0, end - start - 1)))".
ClampCursor(c, shown) == Max(0, Min(c, Max(0, shown - 1)))

\* The values of the iteration that is waiting for a key.
total == Len(visual_list)
total_pages == TotalPages(total)
start == Start_(page)
end == End_(page, total)

\* Top of the loop: the list is built; an empty list ends the browser,
\* otherwise page and cursor are brought into range and the page is shown.
Render ==
  /\ pc = "render"
  /\ LET vl == list_visual(br_dir, filter_regex, expanded_dirs)
         pg == ClampPage(page, Len(vl)) IN
     /\ visual_list' = vl
     /\ IF Len(vl) = 0
        THEN pc' = "browser_end" /\ UNCHANGED <<page, cursor_index>>
        ELSE /\ page' = pg
             /\ cursor_index' = ClampCursor(cursor_index, End_(pg, Len(vl)) - Start_(pg))
             /\ pc' = "key"
  /\ UNCHANGED <<inputVars, G, SELECTED_PATHS, disk, archVars, uplVars, notVars, histVars,
                 abort, splitVars, resolveVars, selVars, br_dir, filter_regex,
                 expanded_dirs, br_key>>

\* What every key handler leaves alone, and the way back to the top of the loop.
KeyDone(k, index, hit) ==
  /\ pc = "key"
  /\ pc' = "render"
  /\ br_key' = IF k = "ENTER"
                THEN [key |-> k, index |-> index, hit |-> hit,
                      start |-> start, end |-> end, total |-> total]
                ELSE [NoKey EXCEPT !.key = k]
  /\ UNCHANGED <<inputVars, G, disk, archVars, uplVars, notVars, histVars, abort,
                 splitVars, resolveVars, selVars, br_dir, visual_list>>

KeyUp ==
  /\ KeyDone("UP", 0, FALSE)
  /\ IF cursor_index > 0
     THEN cursor_index' = cursor_index - 1 /\ UNCHANGED page
     ELSE IF page > 1
     THEN /\ page' = page - 1
          /\ cursor_index' = Max(0, End_(page - 1, total) - Start_(page - 1) - 1)
     ELSE UNCHANGED <<page, cursor_index>>
  /\ UNCHANGED <<SELECTED_PATHS, filter_regex, expanded_dirs>>

KeyDown ==
  /\ KeyDone("DOWN", 0, FALSE)
  /\ IF cursor_index < end - start - 1
     THEN cursor_index' = cursor_index + 1 /\ UNCHANGED page
     ELSE IF page < total_pages
     THEN page' = page + 1 /\ cursor_index' = 0
     ELSE UNCHANGED <<page, cursor_index>>
  /\ UNCHANGED <<SELECTED_PATHS, filter_regex, expanded_dirs>>

KeyLeft ==
  /\ KeyDone("LEFT", 0, FALSE)
  /\ IF page > 1 THEN page' = page - 1 /\ cursor_index' = 0
     ELSE UNCHANGED <<page, cursor_index>>
  /\ UNCHANGED <<SELECTED_PATHS, filter_regex, expanded_dirs>>

KeyRight ==
  /\ KeyDone("RIGHT", 0, FALSE)
  /\ IF page < total_pages THEN page' = page + 1 /\ cursor_index' = 0
     ELSE UNCHANGED <<page, cursor_index>>
  /\ UNCHANGED <<SELECTED_PATHS, filter_regex, expanded_dirs>>

\* ENTER: "index = start + cursor_index; if 0 <= index < total:
\* toggle_selected(visual_list[index])".
KeyEnter ==
  LET index == start + cursor_index
      hit == 0 <= index /\ index < total IN
  /\ KeyDone("ENTER", index, hit)
  /\ SELECTED_PATHS' = IF hit THEN toggle_selected(SELECTED_PATHS, visual_list[index + 1])
                        ELSE SELECTED_PATHS
  /\ UNCHANGED <<page, cursor_index, filter_regex, expanded_dirs>>

\* Key c: the directory under the cursor is expanded or collapsed.
KeyExpand ==
  LET index == start + cursor_index
      hit == 0 <= index /\ index < total IN
  /\ KeyDone("c", 0, FALSE)
  /\ expanded_dirs' =
       IF hit /\ is_dir(visual_list[index + 1])
       THEN (IF visual_list[index + 1] \in expanded_dirs
             THEN expanded_dirs \ {visual_list[index + 1]}
             ELSE expanded_dirs \cup {visual_list[index + 1]})
       ELSE expanded_dirs
  /\ UNCHANGED <<SELECTED_PATHS, page, cursor_index, filter_regex>>

\* Key /: a new filter, or none; back to the first entry.
KeyFilter ==
  /\ KeyDone("/", 0, FALSE)
  /\ \E f \in Filters : filter_regex' = f
  /\ page' = 1 /\ cursor_index' = 0
  /\ UNCHANGED <<SELECTED_PATHS, expanded_dirs>>

\* A digit n: the cursor goes to the n-th entry of the page if there is one.
KeyDigit ==
  /\ \E n \in 0..MaxDigit :
       /\ KeyDone("digit", 0, FALSE)
       /\ LET target == start + (n - 1) IN
          cursor_index' = IF start <= target /\ target < end THEN n - 1 ELSE cursor_index
  /\ UNCHANGED <<SELECTED_PATHS, page, filter_regex, expanded_dirs>>

\* Directories of the model: empty, or up to three entries, one of them a
\* directory that is empty or holds two.
BrowseDirs ==
  { [base |-> b, subs |-> x] :
      b \in {<<>>, <<"t/a", "t/d">>, <<"t/a", "t/b", "t/d">>},
      x \in {<<>>, <<"t/d/x", "t/d/y">>} }

\* Between two renderings the directory is changed from outside: entries
\* appear or disappear.
DirChanges ==
  /\ pc = "render"
  /\ br_dir' \in BrowseDirs \ {br_dir}
  /\ UNCHANGED <<inputVars, pc, G, SELECTED_PATHS, disk, archVars, uplVars, notVars,
                 histVars, abort, splitVars, resolveVars, selVars, page, cursor_index,
                 filter_regex, expanded_dirs, visual_list, br_key>>

\* pilih_file_ui is entered.
InitBrowse ==
  /\ br_dir \in BrowseDirs
  /\ page = 1 /\ cursor_index = 0 /\ filter_regex = "" /\ expanded_dirs = {}
  /\ visual_list = <<>> /\ br_key = NoKey
  /\ pc = "render"
  /\ SELECTED_PATHS = <<>>
  /\ ResolveIdle /\ SelectIdle
  /\ split_src = <<>> /\ split_chunk = 1 /\ split_rest = <<>> /\ split_parts = <<>>
  /\ args = NoArgs /\ cfgfile = NoConfig /\ installed = AllTools /\ disk = Disk0
  /\ G = Defaults
  /\ archive_size = 0 /\ archiver_rc = 0
  /\ tmpfile = "" /\ encrypted_file = "" /\ primary_out = ""
  /\ files_to_upload = <<>> /\ SUMMARY_JSON = "" /\ pw_source = "none"
  /\ FINAL_STATUS = "success"
  /\ idx = 0 /\ tool = "" /\ tries = 0 /\ attempt = 0 /\ delay = 0
  /\ nidx = 0
  /\ stages = <<>> /\ upl = <<>> /\ dispatches = <<>> /\ handled = <<>>
  /\ effects = {} /\ warnings = {} /\ abort = ""

NextBrowse ==
  \/ Render \/ KeyUp \/ KeyDown \/ KeyLeft \/ KeyRight \/ KeyEnter \/ KeyExpand
  \/ KeyFilter \/ KeyDigit \/ DirChanges

SpecBrowse == InitBrowse /\ [][NextBrowse]_vars

\* ================================================================== claims
FileCount == Len(files_to_upload)
\* Number of times the uploader was run for a visited file.
Attempts(r) == Len(r.rcs)
\* The run has dispatched its notification.
Notified == dispatches # <<>>

\* C1 as stated: at notification the status is "failure" exactly when some file
\* made maxRetries failed attempts, and it is "success" without a target.
C1_Original ==
  Notified =>
    /\ (FINAL_STATUS = "failure") <=>
         (\E i \in 1..Len(upl) : upl[i].result = "failed" /\ Attempts(upl[i]) = tries)
    /\ (UPLOAD_TARGET = "" => FINAL_STATUS = "success")

\* C1, amended: at notification the reported status is the final status; it is
\* "failure" exactly when do_upload_one returned nonzero for some file, which
\* is a file that made maxRetries failed attempts or, with an upload tool the
\* code does not know, a file that was given up without any attempt; without
\* an upload target no file is visited and the status is "success".
C1_Status ==
  Notified =>
    /\ dispatches[1].STATUS = FINAL_STATUS
    /\ (FINAL_STATUS = "failure") <=>
         (\E i \in 1..Len(upl) : upl[i].result \in {"failed", "unsupported"})
    /\ \A i \in 1..Len(upl) :
         /\ upl[i].result = "failed" =>
              /\ Attempts(upl[i]) = tries
              /\ \A k \in 1..tries : upl[i].rcs[k] # 0
         /\ upl[i].result = "unsupported" =>
              Attempts(upl[i]) = 0 /\ tool \notin SupportedTools
    /\ (UPLOAD_TARGET = "" => FINAL_STATUS = "success" /\ upl = <<>>)

\* A run of several files ends in "failure": one file made maxRetries >= 1
\* failed attempts and a later one was uploaded.
C1_Witness ==
  /\ Notified
  /\ FINAL_STATUS = "failure"
  /\ \E i, j \in 1..Len(upl) :
       /\ i < j
       /\ upl[i].result = "failed" /\ Attempts(upl[i]) = tries /\ tries >= 1
       /\ upl[j].result = "ok"

\* C2 as stated: per file at most maxRetries attempts, none after a success,
\* and exactly maxRetries attempts before the file is reported failed.
C2_Original ==
  \A i \in 1..Len(upl) :
    /\ Attempts(upl[i]) <= tries
    /\ \A k \in 1..(Attempts(upl[i]) - 1) : upl[i].rcs[k] # 0
    /\ upl[i].result \in {"failed", "unsupported"} => Attempts(upl[i]) = tries

\* C2, amended: for each file handed to the dispatcher the attempts never
\* exceed maxRetries and every attempt but the last has failed (so attempts
\* stop at the first success); a file whose attempts all failed is reported
\* failed after exactly maxRetries attempts; with a tool the code does not
\* know (and maxRetries >= 1) it is reported failed without any attempt.
C2_Retry ==
  \A i \in 1..Len(upl) :
    LET r == upl[i]
        n == Attempts(upl[i]) IN
    /\ n <= tries
    /\ \A k \in 1..(n - 1) : r.rcs[k] # 0
    /\ (r.result = "ok") <=> (n >= 1 /\ r.rcs[n] = 0)
    /\ r.result = "failed" => n = tries
    /\ r.result = "unsupported" => n = 0 /\ tries >= 1 /\ tool \notin SupportedTools
    /\ r.result = "pending" => i = Len(upl) /\ pc \in {"attempt", "sleep", "exit1"}
    /\ i < Len(upl) \/ pc \notin {"attempt", "sleep"} => r.result # "pending"

\* Both ends of the retry loop in one run: a file uploaded at its second attempt
\* and a file given up after maxRetries >= 2 failed attempts.
C2_Witness ==
  \E i, j \in 1..Len(upl) :
    /\ upl[i].result = "ok" /\ Attempts(upl[i]) = 2
    /\ upl[j].result = "failed" /\ Attempts(upl[j]) = tries /\ tries >= 2

\* A run has gone through make_archive, the uploads and the notification and
\* has ended: the headless process exited, or the browser is back.
RunEnded == stages # <<>> /\ pc \in {"exit0", "ui"}

FinalResults == {"ok", "failed", "unsupported", "skipped"}

\* C3: a run without a fatal error dispatches exactly one notification, after
\* every upload of the run has finished, with event on_success for status
\* "success" and on_failure for "failure", whatever recoverable conditions
\* the run met; and a run that has not ended, aborted or been interrupted can
\* always go on.
C3_OneDispatch ==
  /\ Len(dispatches) <= 1
  /\ RunEnded => Len(dispatches) = 1
  /\ Notified =>
       LET d == dispatches[1] IN
       /\ pc \in {"notify_loop", "exit0", "ui"}
       /\ d.STATUS = FINAL_STATUS
       /\ d.STATUS \in {"success", "failure"}
       /\ d.EVENT = (IF d.STATUS = "success" THEN "on_success" ELSE "on_failure")
       /\ (UPLOAD_TARGET # "" =>
             /\ Len(upl) = FileCount
             /\ \A i \in 1..Len(upl) : upl[i].result \in FinalResults)
       /\ (UPLOAD_TARGET = "" => upl = <<>>)
  /\ (pc \notin {"exit0", "exit1", "interrupted"} => ENABLED Next)

\* A headless run ended with one on_failure dispatch although the checksum of
\* a file and the deletion of an uploaded file had failed on the way.
C3_Witness ==
  /\ pc = "exit0"
  /\ Len(dispatches) = 1
  /\ dispatches[1].EVENT = "on_failure"
  /\ {"checksum_failed", "delete_failed"} \subseteq warnings

\* C4: the dispatcher visits the files of files_to_upload one after the other
\* in list order whatever the result of the earlier ones; a file that failed
\* only sets the status to "failure" (it does not abort the process), and at the
\* notification every file of the list has been visited, each one that was
\* there with a supported tool and maxRetries >= 1 having been attempted.
C4_Continue ==
  /\ \A i \in 1..Len(upl) : i <= FileCount /\ upl[i].file = files_to_upload[i]
  /\ (pc = "upload_loop" => Len(upl) = idx - 1)
  /\ (pc \in {"attempt", "sleep"} => Len(upl) = idx)
  /\ \A i \in 1..Len(upl) :
       /\ upl[i].result \in {"failed", "unsupported"} =>
            FINAL_STATUS = "failure" /\ abort \in {"", "interrupt"}
       /\ upl[i].result \in {"ok", "failed"} /\ tries >= 1 => Attempts(upl[i]) >= 1
  /\ (Notified /\ UPLOAD_TARGET # "" => Len(upl) = FileCount)

\* The first file of the list was given up and the files after it were still
\* attempted, the last one successfully.
C4_Witness ==
  /\ Notified
  /\ Len(upl) >= 3
  /\ upl[1].result = "failed" /\ Attempts(upl[1]) >= 1
  /\ \A i \in 2..FileCount : Attempts(upl[i]) >= 1
  /\ upl[FileCount].result = "ok"

\* C5: in a dry run no stage creates, changes or deletes a file or directory
\* other than by writing log lines, and no stage starts an external process.
C5_DryRunNoEffects == DRY_RUN => effects \subseteq {"log"}

\* The position of a stage in the order of the pipeline.
Rank(stage) ==
  CASE stage = "Prepare"   -> 1
    [] stage = "Archive"   -> 2
    [] stage = "Encrypt"   -> 3
    [] stage = "Split"     -> 4
    [] stage = "Checksum"  -> 5
    [] stage = "Summarize" -> 6
    [] stage = "Upload"    -> 7
    [] stage = "Notify"    -> 8

StageNames ==
  {"Prepare", "Archive", "Encrypt", "Split", "Checksum", "Summarize", "Upload", "Notify"}

\* Control points before a stage, and the rank of that stage.
BeforeStage ==
  [prepare |-> 1, archive |-> 2, encrypt |-> 3, split |-> 4, checksum |-> 5,
   summary |-> 6, upload |-> 7, notify |-> 8]

\* Control points inside a stage, and the rank of that stage.
InsideStage == [upload_loop |-> 7, attempt |-> 7, sleep |-> 7, notify_loop |-> 8]

\* C6: the stages of a run occur in the order Prepare, Archive, Encrypt,
\* Split, Checksum, Summarize, Upload, Notify: each at most once and never
\* one after a later one; the stage about to start is later than every stage
\* that has run, a run past Prepare and Archive has run both, and a stage in
\* progress is the last one started.
C6_StageOrder ==
  /\ \A i \in 1..Len(stages) : stages[i] \in StageNames
  /\ \A i, j \in 1..Len(stages) : i < j => Rank(stages[i]) < Rank(stages[j])
  /\ (pc \in DOMAIN BeforeStage =>
        /\ \A i \in 1..Len(stages) : Rank(stages[i]) < BeforeStage[pc]
        /\ (BeforeStage[pc] > 1 => Len(stages) >= 1 /\ stages[1] = "Prepare")
        /\ (BeforeStage[pc] > 2 => Len(stages) >= 2 /\ stages[2] = "Archive"))
  /\ (pc \in DOMAIN InsideStage =>
        /\ stages # <<>>
        /\ Rank(stages[Len(stages)]) = InsideStage[pc]
        /\ stages[1] = "Prepare" /\ stages[2] = "Archive")

\* A run went through all eight stages.
C6_Witness == RunEnded /\ Len(stages) = 8

\* The conditions the run must not survive.
FatalReasons ==
  {"missing_tool", "archiver_failed", "encrypt_failed", "unknown_format", "no_selection"}

\* C7: a fatal condition (missing tool, nonzero exit of the archiver or of the
\* encryption tool, unknown format, empty selection) ends the process with a
\* nonzero exit at once: nothing is uploaded, nothing is dispatched and no
\* stage follows the one that met the condition.
C7_FatalAborts ==
  (abort \in FatalReasons \/ archiver_rc # 0) =>
    /\ pc = "exit1"
    /\ upl = <<>>
    /\ dispatches = <<>>
    /\ \A i \in 1..Len(stages) : Rank(stages[i]) <= 3

\* The conditions the run must survive.
RecoverableConditions ==
  {"config_unreadable", "config_not_found", "invalid_split_size", "checksum_failed",
   "integrity_test_failed", "delete_failed", "plugin_unresolved", "plugin_error"}

\* C8: no recoverable condition (unreadable config file, invalid split size,
\* checksum failure, integrity test failure, failed deletion, unresolved
\* plugin, plugin error) aborts the run.
C8_RecoverableContinue == abort \notin RecoverableConditions

\* Configuration is resolved: main has loaded the config file, applied the
\* command line and chosen the headless or the interactive branch.
Resolved == pc \in {"headless", "ui"}

ToggleKeys == {"MAKE_CHECKSUM", "MAKE_SUMMARY"}
ScalarKeys == CFG_BOOL_KEYS \cup CFG_STR_KEYS

\* The option of key k was given on the command line.
CliGiven(a, k) ==
  IF k \in ToggleKeys THEN a[k] # "default"
  ELSE IF k \in CFG_BOOL_KEYS THEN a[k]
  ELSE a[k] # ""

\* The value the command line gives for key k (--format tar.gz names tgz).
CliValue(a, k) ==
  IF k \in ToggleKeys THEN (IF a[k] = "True" THEN 1 ELSE 0)
  ELSE IF k \in CFG_BOOL_KEYS THEN 1
  ELSE IF k = "ARCHIVE_FORMAT" /\ a[k] = "tar.gz" THEN "tgz"
  ELSE a[k]

\* The lines of the config file the command line names (none when the file
\* is not there).
CfgLines(a, f) ==
  IF a.CONFIG_FILE # "" /\ f.kind = "file" THEN f.lines ELSE <<>>

CfgHas(lines, k) == \E i \in 1..Len(lines) : lines[i][1] = k

\* The value of the last line of key k.
CfgValue(lines, k) ==
  LET last == CHOOSE i \in 1..Len(lines) :
                /\ lines[i][1] = k
                /\ \A j \in (i + 1)..Len(lines) : lines[j][1] # k
      v    == lines[last][2] IN
  IF k \in CFG_BOOL_KEYS THEN parse_bool(v) ELSE v

\* Command line over config file over built-in default.
Expected(a, f, k) ==
  IF CliGiven(a, k) THEN CliValue(a, k)
  ELSE IF CfgHas(CfgLines(a, f), k) THEN CfgValue(CfgLines(a, f), k)
  ELSE Defaults[k]

\* C9: every resolved scalar setting, the boolean toggles included, has the
\* value given on the command line if there is one, else the value of the
\* config file if the key is there, else the built-in default.
C9_Precedence ==
  Resolved => \A k \in ScalarKeys : G[k] = Expected(args, cfgfile, k)

RECURSIVE SuppliedByConfig(_, _)
\* The entries the lines of key k supply, in file order.
SuppliedByConfig(lines, k) ==
  IF lines = <<>> THEN <<>>
  ELSE (IF Head(lines)[1] = k THEN SplitStrip(Head(lines)[2]) ELSE <<>>)
       \o SuppliedByConfig(Tail(lines), k)

\* C10: after resolution SOURCES, EXCLUDES and NOTIFY are the entries of the
\* config file followed by the entries of the command line, each entry as
\* many times as it was supplied.
C10_Accumulate ==
  Resolved =>
    LET lines == CfgLines(args, cfgfile) IN
    /\ G.SOURCES = SuppliedByConfig(lines, "SOURCES") \o AppendNonEmpty(<<>>, args.SOURCES)
    /\ G.EXCLUDES = SuppliedByConfig(lines, "EXCLUDES")
                    \o ExtendExcludes(<<>>, args.EXCLUDES)
    /\ G.NOTIFY_TARGETS = SuppliedByConfig(lines, "NOTIFY")
                          \o ExtendNotify(<<>>, args.NOTIFY_TARGETS)

\* The switch of key k was requested: given on the command line, or set to a
\* true value by the config file.
Requested(k) ==
  \/ CliGiven(args, k)
  \/ /\ CfgHas(CfgLines(args, cfgfile), k)
     /\ CfgValue(CfgLines(args, cfgfile), k) # 0

\* C11: where make_archive starts, headless or interactive, KEEP_AFTER_SPLIT
\* and RM_AFTER_SPLIT are never both set; when both were requested keep is
\* set and remove is off.
C11_Exclusive ==
  pc = "prepare" =>
    /\ ~(G.KEEP_AFTER_SPLIT # 0 /\ G.RM_AFTER_SPLIT # 0)
    /\ (Requested("KEEP_AFTER_SPLIT") /\ Requested("RM_AFTER_SPLIT") =>
          G.KEEP_AFTER_SPLIT # 0 /\ G.RM_AFTER_SPLIT = 0)

\* The Split stage has just written the chunks of a real split.
SplitDone == pc = "checksum" /\ stages # <<>> /\ stages[Len(stages)] = "Split" /\ ~DRY_RUN

\* C12: with remove-after-split requested and keep-after-split not requested,
\* a real split with a valid size leaves exactly the chunks in files_to_upload
\* and deletes the unsplit artifact (unless the deletion itself failed),
\* headless or interactive.
C12_RemoveAfterSplit ==
  (SplitDone /\ Requested("RM_AFTER_SPLIT") /\ ~Requested("KEEP_AFTER_SPLIT")) =>
    /\ files_to_upload =
         do_python_split(archive_size, primary_out \o ".part.",
                         parse_split_size(G.SPLIT_SIZE))
    /\ (primary_out \notin disk \/ "delete_failed" \in warnings)

RECURSIVE Concat(_)
\* The data of the parts, one after the other.
Concat(parts) ==
  IF parts = <<>> THEN <<>> ELSE Head(parts).data \o Concat(Tail(parts))

Paths(parts) == [i \in 1..Len(parts) |-> parts[i].path]

\* ceil(s / c) for c > 0.
CeilDiv(s, c) == (s + c - 1) \div c

\* C13: do_python_split on S bytes with chunk size C > 0 writes ceil(S/C)
\* parts named by the suffixes 000, 001, ... in the order written; every part
\* holds C bytes but the last, which holds S mod C (C when S is a multiple of
\* C); the parts in order are the bytes of the file.  While the loop runs the
\* parts written and the bytes not yet read are the file.  The paths are the
\* ones the pipeline computes from the size alone.
C13_Split ==
  LET S == Len(split_src)
      C == split_chunk
      n == Len(split_parts) IN
  /\ Concat(split_parts) \o split_rest = split_src
  /\ \A i \in 1..n : split_parts[i].path = SplitPrefix \o Pad3(i - 1)
  /\ \A i \in 1..(n - 1) : Len(split_parts[i].data) = C
  /\ (pc = "split_done" =>
        /\ n = CeilDiv(S, C)
        /\ (n > 0 => Len(split_parts[n].data) = (IF S % C = 0 THEN C ELSE S % C))
        /\ Concat(split_parts) = split_src
        /\ Paths(split_parts) = do_python_split(S, SplitPrefix, C))

\* A file was split into three parts, the last one shorter than the others.
C13_Witness ==
  /\ pc = "split_done"
  /\ Len(split_parts) = 3
  /\ Len(split_parts[3].data) < split_chunk

\* The chunk paths of a split of `size` bytes into chunks of `b` bytes, by
\* number: ceil(size / b) paths with the suffixes 000, 001, ...
ChunkPaths(primary, size, b) ==
  [i \in 1..CeilDiv(size, b) |-> (primary \o ".part.") \o Pad3(i - 1)]

\* C14: under the keep-both policy (KEEP_AFTER_SPLIT set, the default, or
\* neither switch set) a real split leaves in files_to_upload all chunks in
\* ascending suffix order followed by the unsplit artifact; the chunks and
\* the unsplit artifact exist, and the primary output is the unsplit artifact
\* (the encrypted file when there is one, else the archiver's output).
C14_KeepBoth ==
  (SplitDone /\ (G.KEEP_AFTER_SPLIT # 0 \/ G.RM_AFTER_SPLIT = 0)) =>
    LET chunks == ChunkPaths(primary_out, archive_size, parse_split_size(G.SPLIT_SIZE)) IN
    /\ files_to_upload = Append(chunks, primary_out)
    /\ Range(files_to_upload) \subseteq disk
    /\ primary_out = (IF encrypted_file # "" THEN encrypted_file ELSE tmpfile)
    /\ primary_out # ""

\* A real split under the default policy wrote two chunks and kept the artifact.
C14_Witness ==
  /\ SplitDone
  /\ G.KEEP_AFTER_SPLIT # 0
  /\ Len(files_to_upload) = 3
  /\ files_to_upload[3] = primary_out

\* Size strings of the form N followed by a lower-case k, m or g, with the
\* bytes they stand for.
LowerCaseSizes ==
  ("1k" :> 1024) @@ ("0k" :> 0) @@ ("1m" :> 1024 * 1024) @@ ("1g" :> 1024 * 1024 * 1024)

\* Size strings that read as N and a unit once surrounding blanks are
\* dropped and the case of the unit is ignored, with their bytes.
LenientSizes ==
  LowerCaseSizes @@ ("1K" :> 1024) @@ (" 1k " :> 1024) @@ ("2M" :> 2 * 1024 * 1024)

\* The Split stage is over.
AfterSplit == pc = "checksum"

\* The split was skipped with a warning: the unsplit artifact alone is listed.
SplitSkipped ==
  /\ "invalid_split_size" \in warnings
  /\ files_to_upload = <<primary_out>>
  /\ \A i \in 1..Len(stages) : stages[i] # "Split"

\* The split ran on chunks of b bytes (in a dry run it is only logged).
SplitRanWith(b) ==
  /\ "invalid_split_size" \notin warnings
  /\ stages[Len(stages)] = "Split"
  /\ (~DRY_RUN =>
        \E k \in {Len(files_to_upload), Len(files_to_upload) - 1} :
          SubSeq(files_to_upload, 1, k) = ChunkPaths(primary_out, archive_size, b))

\* C15 as stated: N followed by k, m or g gives N*1024, N*1024^2, N*1024^3
\* bytes; every other string, and a size that is not positive, skips the
\* split with a warning and leaves the single unsplit artifact (a split size
\* was given).
C15_Original ==
  (AfterSplit /\ G.SPLIT_SIZE # "") =>
    LET s == G.SPLIT_SIZE IN
    IF s \in DOMAIN LowerCaseSizes /\ LowerCaseSizes[s] > 0
    THEN parse_split_size(s) = LowerCaseSizes[s] /\ SplitRanWith(LowerCaseSizes[s])
    ELSE SplitSkipped

\* C15, amended: a string that, blanks around it dropped, is N followed by
\* k, m or g in either case gives N*1024, N*1024^2, N*1024^3 bytes and, when
\* that is positive, the split runs on chunks of that size; every other
\* non-empty string, and a size of 0 bytes, skips the split with a warning
\* and leaves the single unsplit artifact; with the empty string no split is
\* asked for: the single unsplit artifact is listed without a warning.
C15_SplitSize ==
  AfterSplit =>
    LET s == G.SPLIT_SIZE IN
    /\ (s \in DOMAIN LenientSizes => parse_split_size(s) = LenientSizes[s])
    /\ IF s \in DOMAIN LenientSizes /\ LenientSizes[s] > 0
       THEN SplitRanWith(LenientSizes[s])
       ELSE IF s # "" THEN parse_split_size(s) = 0 /\ SplitSkipped
       ELSE files_to_upload = <<primary_out>> /\ "invalid_split_size" \notin warnings

\* Splits ran with an upper-case unit and were skipped for a malformed string.
C15_Witness ==
  /\ AfterSplit
  /\ \/ G.SPLIT_SIZE = "2M" /\ ~DRY_RUN /\ Len(files_to_upload) = 2
     \/ G.SPLIT_SIZE = "1.5k" /\ SplitSkipped

\* Symmetric encryption is requested for a tar or tar.gz/tgz archive.
EncryptRequested == G.USE_GPG # 0 /\ G.ARCHIVE_FORMAT \in {"tar", "tgz", "tar.gz"}

\* Control is past the encryption block of make_archive.
PastEncrypt ==
  pc \in {"split", "checksum", "summary", "upload", "upload_loop", "attempt", "sleep",
          "notify", "notify_loop"}

\* The paths derived from the artifact p: p itself and its chunks.
DerivedFrom(p) == {p} \cup {(p \o ".part.") \o Pad3(i) : i \in 0..MaxChunks}

\* C16: the Encrypt stage runs exactly when symmetric encryption is requested
\* and the format is tar or tar.gz/tgz.  When it ran the primary output is the
\* archiver's output plus ".gpg" and only the encrypted artifact and its
\* chunks are listed, visited by the uploader and named in the dispatch; when
\* it did not run the primary output is the archiver's output.
C16_Encrypt ==
  /\ (PastEncrypt => ((\E i \in 1..Len(stages) : stages[i] = "Encrypt") <=> EncryptRequested))
  /\ (PastEncrypt /\ primary_out # "" =>
        /\ IF EncryptRequested
           THEN /\ primary_out = tmpfile \o ".gpg"
                /\ encrypted_file = primary_out
                /\ tmpfile \notin Range(files_to_upload)
           ELSE primary_out = tmpfile /\ encrypted_file = ""
        /\ Range(files_to_upload) \subseteq DerivedFrom(primary_out)
        /\ \A i \in 1..Len(upl) : upl[i].file \in DerivedFrom(primary_out)
        /\ \A i \in 1..Len(dispatches) : dispatches[i].ARCHIVE_PATH = primary_out)

\* An encrypted archive was split and its chunks and itself were uploaded.
C16_Witness ==
  /\ EncryptRequested
  /\ Notified
  /\ ~DRY_RUN
  /\ Len(upl) >= 2
  /\ upl[Len(upl)].file = tmpfile \o ".gpg"

\* The dispatcher is done with the file of record r.
Finished(r) == r.result # "pending"

\* No archiver, encryption tool or uploader process was started.
NothingInvoked == effects \cap {"proc:archiver", "proc:gpg", "proc:upload"} = {}

\* C17 as stated: in a dry run the archiver, the encryption tool and the
\* uploader are only logged and count as succeeded, every file is reported
\* uploaded at its first attempt and the run ends with status "success" and
\* the event on_success.
C17_Original ==
  DRY_RUN =>
    /\ NothingInvoked
    /\ abort \notin {"archiver_failed", "encrypt_failed"}
    /\ \A i \in 1..Len(upl) :
         Finished(upl[i]) => upl[i].result = "ok" /\ upl[i].rcs = <<0>>
    /\ (Notified => dispatches[1].STATUS = "success" /\ dispatches[1].EVENT = "on_success")

\* C17, amended: in a dry run the archiver, the encryption tool and the
\* uploader are only logged and count as succeeded; with a supported upload
\* tool and maxRetries >= 1 every file is reported uploaded at its first
\* attempt, without a delay, and the run ends with status "success" and the
\* event on_success; with maxRetries < 1 or an upload tool the code does not
\* know every file is given up without an attempt and the run ends with
\* status "failure" and the event on_failure; without an upload target the
\* run ends with "success".
C17_DryRun ==
  DRY_RUN =>
    /\ NothingInvoked
    /\ abort \notin {"archiver_failed", "encrypt_failed"}
    /\ \A i \in 1..Len(upl) :
         Finished(upl[i]) =>
           IF tool \in SupportedTools /\ tries >= 1
           THEN upl[i].result = "ok" /\ upl[i].rcs = <<0>> /\ upl[i].sleeps = <<>>
           ELSE upl[i].result \in {"failed", "unsupported"} /\ upl[i].rcs = <<>>
    /\ (Notified =>
          LET good == upl = <<>> \/ (tool \in SupportedTools /\ tries >= 1) IN
          /\ (UPLOAD_TARGET # "" => Len(upl) = FileCount /\ FileCount >= 1)
          /\ dispatches[1].STATUS = (IF good THEN "success" ELSE "failure")
          /\ dispatches[1].EVENT = (IF good THEN "on_success" ELSE "on_failure")
          /\ dispatches[1].DRY_RUN = "1")

\* A dry run went through encryption and an upload and dispatched on_success.
C17_Witness ==
  /\ DRY_RUN
  /\ Notified
  /\ \E i \in 1..Len(stages) : stages[i] = "Encrypt"
  /\ Len(upl) = 1 /\ upl[1].result = "ok"
  /\ dispatches[1].EVENT = "on_success"
\* ---- C18 ----
\* The plugin invocations of the dispatch, by their position in `handled`.
Invoked == {i \in 1..Len(handled) : "env" \in DOMAIN handled[i]}

\* C18: every external plugin invocation of one dispatch receives the same
\* environment: EVENT is on_success or on_failure, STATUS is success or
\* failure, EVENT is on_success exactly when STATUS is success, ARCHIVE_PATH
\* is the run's primary output, FILES is files_to_upload joined by newlines in
\* order, and DRY_RUN is "1" in a dry run and "0" otherwise.
C18_PluginEnv ==
  \A i \in Invoked :
    LET e == handled[i].env IN
      /\ e.EVENT \in {"on_success", "on_failure"}
      /\ e.STATUS \in {"success", "failure"}
      /\ (e.EVENT = "on_success") = (e.STATUS = "success")
      /\ e.STATUS = FINAL_STATUS
      /\ e.ARCHIVE_PATH = primary_out
      /\ e.FILES = JoinLines(files_to_upload)
      /\ e.DRY_RUN = (IF DRY_RUN THEN "1" ELSE "0")
      /\ \A j \in Invoked : handled[j].env = e

\* Two plugins were invoked after a failed run that produced several files.
C18_Witness ==
  /\ Cardinality(Invoked) >= 2
  /\ Len(files_to_upload) >= 2
  /\ FINAL_STATUS = "failure"
  /\ \E i \in Invoked : handled[i].how = "called"

\* ---- C19 ----
\* C19: the upload dispatcher deletes a local file only when post-upload
\* deletion is enabled and only after an upload attempt for that same file
\* has succeeded; a file whose upload failed, or that has not been uploaded
\* yet, is never deleted by the dispatcher.
C19_DeleteAfterSuccess ==
  \A i \in 1..Len(upl) :
    /\ upl[i].removed \subseteq {upl[i].file}
    /\ upl[i].removed # {} =>
         /\ G.AFTER_UPLOAD_RM # 0
         /\ upl[i].result = "ok"
         /\ upl[i].rcs # <<>>
         /\ upl[i].rcs[Len(upl[i].rcs)] = 0
         /\ upl[i].file \notin disk
    /\ upl[i].result # "ok" => upl[i].removed = {}

\* With deletion enabled, one file was uploaded at its second attempt and
\* removed, and another file failed and is still on disk.
C19_Witness ==
  /\ G.AFTER_UPLOAD_RM # 0
  /\ \E i, j \in 1..Len(upl) :
       /\ upl[i].removed = {upl[i].file}
       /\ Len(upl[i].rcs) = 2
       /\ upl[i].file \notin disk
       /\ upl[j].result = "failed"
       /\ upl[j].rcs # <<>>
       /\ upl[j].file \in disk

\* ---- C20 ----
\* C20: in the upload retry loop the delay after the k-th consecutive failed
\* attempt of a file is 2*2^(k-1) time-units (2, 4, 8, ...), the sequence
\* restarts at 2 for every file, and a delay is taken only between two
\* attempts: never before the first attempt, never after a successful attempt
\* and never after the last permitted attempt.
C20_Backoff ==
  \A i \in 1..Len(upl) :
    LET r == upl[i] IN
      /\ \A k \in 1..Len(r.sleeps) :
           /\ r.sleeps[k] = 2 * 2^(k - 1)
           /\ k <= Len(r.rcs)
           /\ r.rcs[k] # 0
           /\ k < tries
      /\ r.result = "ok" => Len(r.sleeps) = Len(r.rcs) - 1

\* ---- C21 ----
\* Archive encryption is requested: zip with AES, zip with the encryption
\* flag, or 7z with the encryption flag.
ArchiveEncryptionRequested ==
  \/ G.ARCHIVE_FORMAT = "zip" /\ G.ZIP_AES = 1
  \/ G.ARCHIVE_FORMAT = "zip" /\ G.ZIP_ENCRYPT = 1
  \/ G.ARCHIVE_FORMAT = "7z" /\ G.ZIP_ENCRYPT = 1

\* The archiver has just produced the archive of a real run.
ArchiveProduced == pc = "encrypt" /\ ~DRY_RUN

\* C21: when archive encryption is requested the password comes from the
\* explicit password setting if one is given, otherwise from an interactive
\* prompt; an archive is produced without a password only when no encryption
\* was requested, and no prompt is issued when an explicit password is set.
C21_Password ==
  ArchiveProduced =>
    /\ ArchiveEncryptionRequested =>
         pw_source = (IF G.ZIP_PASSWORD # "" THEN "explicit" ELSE "prompt")
    /\ pw_source = "none" => ~ArchiveEncryptionRequested
    /\ G.ZIP_PASSWORD # "" => pw_source # "prompt"

\* ---- C22 ----
\* do_upload_one has chosen the tool of the current file and the setting asked
\* for the automatic choice.
AutoChosen ==
  /\ pc \in {"attempt", "sleep"}
  /\ G.UPLOAD_TOOL \in {"", "auto"}

\* C22: with upload tool "auto" the chosen tool is rclone if installed; else
\* aws if the target starts with s3:// and aws is installed; else lftp if
\* installed; else scp if the target starts with sftp://; else rclone; the
\* selection itself never fails.
C22_AutoTool ==
  AutoChosen =>
    LET s3   == StartsWithS3(UPLOAD_TARGET)
        sftp == StartsWithSftp(UPLOAD_TARGET)
        has(t) == t \in installed IN
      /\ has("rclone") => tool = "rclone"
      /\ ~has("rclone") /\ s3 /\ has("aws") => tool = "aws"
      /\ ~has("rclone") /\ ~(s3 /\ has("aws")) /\ has("lftp") => tool = "lftp"
      /\ ~has("rclone") /\ ~(s3 /\ has("aws")) /\ ~has("lftp") /\ sftp => tool = "scp"
      /\ ~has("rclone") /\ ~(s3 /\ has("aws")) /\ ~has("lftp") /\ ~sftp => tool = "rclone"
      /\ tool \in SupportedTools
      /\ abort = ""

\* The automatic choice fell on aws although lftp is installed too.
C22_Witness ==
  /\ AutoChosen
  /\ tool = "aws"
  /\ "lftp" \in installed
  /\ "rclone" \notin installed

\* ---- C23 ----
\* The first position of a sequence of candidates that satisfies Ok, 0 if none.
FirstOk(cands, Ok(_)) ==
  IF \E i \in 1..Len(cands) : Ok(cands[i])
  THEN CHOOSE i \in 1..Len(cands) : Ok(cands[i]) /\ \A j \in 1..(i - 1) : ~Ok(cands[j])
  ELSE 0

DispatchDone == dispatches # <<>> /\ pc \in {"exit0", "ui"}

\* C24: one notification dispatch handles the configured notify targets in
\* list order, one handler call per list entry; a built-in notifier whose
\* environment is missing, an unresolvable plugin name, or a plugin that raises
\* on invocation is logged and skipped, and every later target in the list is
\* still handled.
C24_EveryTarget ==
  /\ Len(handled) <= Len(NOTIFY_TARGETS)
  /\ \A i \in 1..Len(handled) : handled[i].target = NOTIFY_TARGETS[i]
  /\ pc = "notify_loop" => Len(handled) = nidx - 1
  /\ DispatchDone => Len(handled) = Len(NOTIFY_TARGETS)
  /\ (pc = "notify_loop" \/ DispatchDone) => abort = ""

\* The dispatch is done: its first target was a plugin that raised, its second
\* a built-in notifier without its environment, and the third was called.
C24_Witness ==
  /\ DispatchDone
  /\ Len(handled) = 3
  /\ handled[1].how = "raised"
  /\ handled[2].how = "env_missing"
  /\ handled[3].how = "called"

\* ---- C25 ----
\* C25: an interrupt that arrives while an external command is running or
\* during a backoff delay is never swallowed: it propagates out of the
\* dispatcher at once, so no further attempt is made for the current file, no
\* later file is uploaded and the run does not continue as if the attempt had
\* merely failed.
C25_Interrupt ==
  \A i \in 1..Len(upl) :
    upl[i].result = "interrupted" =>
      /\ pc = "interrupted"
      /\ abort = "interrupt"
      /\ i = Len(upl) /\ i = idx
      /\ Len(upl[i].rcs) = attempt - 1
      /\ Len(upl[i].sleeps) <= Len(upl[i].rcs)
      /\ \A k \in 1..Len(upl[i].rcs) : upl[i].rcs[k] # 0
      /\ dispatches = <<>>

\* The interrupt came during the first delay of the first of several files.
C25_Witness ==
  /\ pc = "interrupted"
  /\ Len(files_to_upload) >= 2
  /\ Len(upl) = 1
  /\ upl[1].rcs = <<1>>
  /\ upl[1].sleeps = <<>>
  /\ tries >= 2

\* ---- C26 ----
\* Occurrences of p in a list.
RECURSIVE Count(_, _)
Count(s, p) ==
  IF s = <<>> THEN 0 ELSE (IF Head(s) = p THEN 1 ELSE 0) + Count(Tail(s), p)

\* The list without its entries equal to p, by position.
Others(s, p) ==
  LET keep == {i \in 1..Len(s) : s[i] # p}
      RECURSIVE pick(_)
      pick(i) == IF i > Len(s) THEN <<>>
                 ELSE (IF i \in keep THEN <<s[i]>> ELSE <<>>) \o pick(i + 1) IN
  pick(1)

\* C26: interactive selection behaves like a set under toggling: toggling a
\* path that is not selected adds it exactly once, toggling a selected path
\* removes every occurrence of it, the order of the other selected paths is
\* unchanged, and a path is selected after a sequence of toggle and clear
\* operations exactly when it was toggled an odd number of times since the
\* last clear (since the empty selection of the start, without a clear).
C26_Toggle ==
  pc = "select" =>
    /\ sel_op.kind = "toggle" =>
         LET p == sel_op.path IN
           /\ Count(sel_prev, p) = 0 => Count(SELECTED_PATHS, p) = 1
           /\ Count(sel_prev, p) > 0 => Count(SELECTED_PATHS, p) = 0
           /\ Others(SELECTED_PATHS, p) = Others(sel_prev, p)
    /\ sel_op.kind = "clear" => SELECTED_PATHS = <<>>
    /\ sel_base = <<>> =>
         \A p \in SelPaths :
           /\ (Count(SELECTED_PATHS, p) > 0) = (sel_count[p] % 2 = 1)
           /\ Count(SELECTED_PATHS, p) <= 1

\* A path that was selected twice is gone after one toggle, the other path
\* kept its place.
C26_Witness ==
  /\ pc = "select"
  /\ sel_op = [kind |-> "toggle", path |-> "srcA"]
  /\ Count(sel_prev, "srcA") = 2
  /\ SELECTED_PATHS = <<"srcB">>

\* ---- C27 ----
\* C27: in a non-dry run with an upload target, a file of files_to_upload that
\* does not exist on disk when its turn comes receives zero upload attempts
\* and leaves the final status unchanged, so a run can end with status
\* "success" and event on_success although a listed file was never uploaded;
\* in a dry run every listed file is passed to the uploader regardless of
\* existence.
C27_MissingFile ==
  /\ \A i \in 1..Len(upl) :
       /\ upl[i].file = files_to_upload[i]
       /\ upl[i].result = "skipped" =>
            /\ ~DRY_RUN
            /\ UPLOAD_TARGET # ""
            /\ upl[i].file \notin disk
            /\ upl[i].rcs = <<>> /\ upl[i].sleeps = <<>> /\ upl[i].removed = {}
       /\ DRY_RUN => upl[i].result # "skipped"
  /\ upl # <<>> =>
       (FINAL_STATUS = "failure") =
         (\E i \in 1..Len(upl) : upl[i].result \in {"failed", "unsupported"})

\* A real run ended with "success" and on_success: one listed file was
\* uploaded, another was missing at its turn and never uploaded.
C27_Witness ==
  /\ DispatchDone
  /\ ~DRY_RUN
  /\ FINAL_STATUS = "success"
  /\ dispatches[1].EVENT = "on_success"
  /\ Len(upl) = Len(files_to_upload)
  /\ \E i, j \in 1..Len(upl) : upl[i].result = "skipped" /\ upl[j].result = "ok"

\* ---- C28 ----
\* C28: in the interactive file browser, after any sequence of key events
\* (arrows, page keys, digits, filter change, expand/collapse) the state
\* rendered next satisfies 1 <= page <= total_pages and 0 <= cursor_index <
\* number of entries on that page, so ENTER always toggles an entry that is
\* currently displayed and never indexes outside the list.
C28_CursorInRange ==
  /\ pc = "key" =>
       /\ 1 <= page /\ page <= total_pages
       /\ 0 <= cursor_index /\ cursor_index < end - start
       /\ start + cursor_index < total
  /\ br_key.key = "ENTER" =>
       /\ br_key.hit
       /\ br_key.start <= br_key.index /\ br_key.index < br_key.end
       /\ 0 <= br_key.index /\ br_key.index < br_key.total

\* ENTER toggled the last entry of the last page, shown after the directory
\* was expanded and the cursor moved there.
C28_Witness ==
  /\ pc = "render"
  /\ br_key.key = "ENTER"
  /\ page = 3
  /\ expanded_dirs # {}
  /\ br_key.index = br_key.total - 1
  /\ br_key.total = Len(visual_list)
  /\ InSeq(SELECTED_PATHS, visual_list[Len(visual_list)])

====
